---------------------------- MODULE Spec2Model ----------------------------
(***************************************************************************)
(* A model of hashline: the LINE:HASH anchor parser, the text edit engine  *)
(* (apply_hashline_edits, apply_replace_edits), the mismatch reporter, the *)
(* JSON path+hash engine (apply_json_edits) and the apply / json-apply     *)
(* commands of the command line.                                           *)
(*                                                                         *)
(* A string is a sequence of characters; a character is a TLA+ string of   *)
(* one letter ("\n" is the line feed).  A line number or a count is an     *)
(* integer.  An Option is the empty sequence (None) or a sequence of one   *)
(* element (Some).                                                         *)
(***************************************************************************)
EXTENDS Integers, Sequences, FiniteSets, TLC

(***************************************************************************)
(* Characters and strings                                                  *)
(***************************************************************************)
\* the one element of a set of one element.  The({e : v \in {x}}) is e with v
\* standing for the value of x: x is evaluated once, however often e uses v
The(S) == CHOOSE v \in S : TRUE

None == <<>>

Some(x) == <<x>>

LF == "\n"

Digits == <<"0", "1", "2", "3", "4", "5", "6", "7", "8", "9">>

DigitChars == {Digits[i] : i \in 1..10}

LowerChars ==
  {"a", "b", "c", "d", "e", "f", "g", "h", "i", "j", "k", "l", "m",
   "n", "o", "p", "q", "r", "s", "t", "u", "v", "w", "x", "y", "z"}

UpperChars ==
  {"A", "B", "C", "D", "E", "F", "G", "H", "I", "J", "K", "L", "M",
   "N", "O", "P", "Q", "R", "S", "T", "U", "V", "W", "X", "Y", "Z"}

\* [0-9a-zA-Z]
AlnumChars == DigitChars \cup LowerChars \cup UpperChars

\* char::is_whitespace and the regex class \s, on the characters of the model
WhitespaceChars == {" ", "\t", "\r", "\n"}

IsWs(c) == c \in WhitespaceChars

\* str::to_lowercase on one character (only the letters a hash may hold differ)
LowerOf(c) ==
  CASE c = "A" -> "a" [] c = "B" -> "b" [] c = "C" -> "c" [] c = "D" -> "d"
    [] c = "E" -> "e" [] c = "F" -> "f" [] OTHER -> c

ToLowercase(s) == The({[i \in 1..Len(t) |-> LowerOf(t[i])] : t \in {s}})

\* s[from..] with a 0-based byte offset, as Rust slices
DropN(s, n) == The({SubSeq(t, n + 1, Len(t)) : t \in {s}})

TakeN(s, n) == SubSeq(s, 1, n)

StartsWith(s, p) ==
  The({Len(q) <= Len(t) /\ SubSeq(t, 1, Len(q)) = q : t \in {s}, q \in {p}})

EndsWith(s, p) ==
  The({Len(q) <= Len(t) /\ SubSeq(t, Len(t) - Len(q) + 1, Len(t)) = q :
         t \in {s}, q \in {p}})

\* str::find: the 0-based offset of the first occurrence, -1 for None
Find(hay, needle) ==
  The({The({IF hits = {} THEN -1 ELSE CHOOSE i \in hits : \A j \in hits : i <= j :
              hits \in {{i \in 0..(Len(h) - Len(n)) : SubSeq(h, i + 1, i + Len(n)) = n}}}) :
         h \in {hay}, n \in {needle}})

\* the number of leading characters of s that lie in the set cls
LeadingCount(s, cls) ==
  The({The({IF others = {} THEN Len(t) ELSE (CHOOSE i \in others : \A j \in others : i <= j) - 1 :
              others \in {{i \in 1..Len(t) : t[i] \notin cls}}}) :
         t \in {s}})

\* the number of trailing characters of s that lie in the set cls
TrailingCount(s, cls) ==
  The({The({IF others = {} THEN Len(t)
            ELSE Len(t) - (CHOOSE i \in others : \A j \in others : i >= j) :
              others \in {{i \in 1..Len(t) : t[i] \notin cls}}}) :
         t \in {s}})

TrimStart(s) == The({DropN(t, LeadingCount(t, WhitespaceChars)) : t \in {s}})

TrimEnd(s) == The({TakeN(t, Len(t) - TrailingCount(t, WhitespaceChars)) : t \in {s}})

Trim(s) == TrimEnd(TrimStart(s))

\* str::split(ch): "" gives [""], "a\n" gives ["a", ""]
SplitOn(s, ch) ==
  The({The({[k \in 1..(Len(cuts) - 1) |-> SubSeq(t, cuts[k] + 1, cuts[k + 1] - 1)] :
              cuts \in {<<0>> \o SelectSeq([i \in 1..Len(t) |-> i], LAMBDA i : t[i] = ch)
                          \o <<Len(t) + 1>>}}) :
         t \in {s}})

\* [String]::join(sep)
RECURSIVE JoinFrom(_, _, _)
JoinFrom(ls, sep, i) ==
  IF i > Len(ls) THEN <<>>
  ELSE IF i = Len(ls) THEN ls[i]
  ELSE ls[i] \o sep \o JoinFrom(ls, sep, i + 1)

JoinWith(ls, sep) == The({JoinFrom(t, sep, 1) : t \in {ls}})

\* [String]::concat()
Concat(ls) == JoinWith(ls, <<>>)

\* format!("{}", n) for an unsigned number
RECURSIVE FormatNat(_)
FormatNat(n) ==
  The({IF m < 10 THEN <<Digits[m + 1]>>
       ELSE FormatNat(m \div 10) \o <<Digits[(m % 10) + 1]>> : m \in {n}})

DigitValue(c) == CHOOSE v \in 0..9 : Digits[v + 1] = c

(***************************************************************************)
(* hash.rs: the line hash                                                  *)
(***************************************************************************)
\* xxh32(bytes, 0) % 256, formatted {:02x}, on the byte strings the model
\* hashes: the whitespace-stripped lines of its files ("x=", "y", "k", "")
\* and its one-character lines of a Unicode hyphen (the UTF-8 bytes of the
\* code point), and the canonical forms of the nodes of its JSON documents.  The values
\* are those of the real function.
Xxh32Mod256Hex ==
  (<<"x", "=">> :> <<"8", "c">>) @@ (<<"y">> :> <<"3", "7">>)
    @@ (<<"k">> :> <<"2", "4">>) @@ (<<>> :> <<"0", "5">>)
    @@ (<<"U+2010">> :> <<"9", "b">>) @@ (<<"U+2011">> :> <<"d", "9">>)
    @@ (<<"U+2012">> :> <<"a", "b">>) @@ (<<"U+2013">> :> <<"7", "d">>)
    @@ (<<"U+2014">> :> <<"0", "d">>) @@ (<<"U+2015">> :> <<"2", "2">>)
    @@ (<<"U+2212">> :> <<"0", "1">>) @@ (<<"U+FE63">> :> <<"3", "a">>)
    @@ (<<"U+FF0D">> :> <<"c", "1">>)
    @@ (<<"1">> :> <<"b", "2">>) @@ (<<"2">> :> <<"3", "4">>) @@ (<<"3">> :> <<"c", "4">>)
    @@ (<<"[", "1", ",", "2", "]">> :> <<"5", "c">>)
    @@ (<<"{", "\"", "b", "\"", ":", "1", "}">> :> <<"9", "1">>)
    @@ (<<"{", "\"", "a", "\"", ":", "{", "\"", "b", "\"", ":", "1", "}", ",",
          "\"", "c", "\"", ":", "[", "1", ",", "2", "]", "}">> :> <<"6", "8">>)
    @@ (<<"{", "\"", "a", ".", "b", "\"", ":", "1", ",", "\"", "c", " ", "d", "\"", ":", "2",
          ",", "\"", "e", "[", "0", "]", "\"", ":", "3", "}">> :> <<"6", "1">>)
    @@ (<<"{", "\"", "a", "\"", ":", "{", "\"", "b", "\"", ":", "1", "}", ",",
          "\"", "a", ".", "b", "\"", ":", "2", "}">> :> <<"2", "1">>)

\* compute_line_hash(_idx, line)
compute_line_hash(idx, line) ==
  The({Xxh32Mod256Hex[SelectSeq(IF EndsWith(l, <<"\r">>) THEN TakeN(l, Len(l) - 1) ELSE l,
                                LAMBDA c : ~IsWs(c))] :
         l \in {line}})

(***************************************************************************)
(* parse.rs: parse_line_ref                                                *)
(***************************************************************************)
\* the regex class \d is Unicode-aware: it also matches decimal digits that
\* are not ASCII, here U+0663 (ARABIC-INDIC DIGIT THREE), written as one
\* character of the model
RegexDigitChars == DigitChars \cup {"U+0663"}

\* usize::MAX = 18446744073709551615
UsizeMaxDigits ==
  <<"1", "8", "4", "4", "6", "7", "4", "4", "0", "7",
    "3", "7", "0", "9", "5", "5", "1", "6", "1", "5">>

\* a > b for two digit strings of the same length: the first digit they
\* differ in decides
DigitsGreater(a, b) ==
  The({The({diff # {} /\ The({DigitValue(x[d]) > DigitValue(y[d]) :
                               d \in {CHOOSE i \in diff : \A j \in diff : i <= j}}) :
              diff \in {{i \in 1..Len(x) : x[i] # y[i]}}}) :
         x \in {a}, y \in {b}})

RECURSIVE DigitsValueTo(_, _)
DigitsValueTo(ds, n) ==
  IF n = 0 THEN 0 ELSE DigitsValueTo(ds, n - 1) * 10 + DigitValue(ds[n])

DigitsValue(ds) == The({DigitsValueTo(t, Len(t)) : t \in {ds}})

\* str::parse::<usize>() on a non-empty run of \d characters: Err on a
\* character that is no ASCII digit and on a value above usize::MAX
ParseUsize(ds) ==
  The({The({IF \E i \in 1..Len(t) : t[i] \notin DigitChars
            THEN [ok |-> FALSE, v |-> 0]
            ELSE IF Len(sig) > Len(UsizeMaxDigits)
                    \/ (Len(sig) = Len(UsizeMaxDigits) /\ DigitsGreater(sig, UsizeMaxDigits))
            THEN [ok |-> FALSE, v |-> 0]
            ELSE [ok |-> TRUE, v |-> DigitsValue(sig)] :
              sig \in {DropN(t, LeadingCount(t, {"0"}))}}) :
         t \in {ds}})

\* COLON_WS_RE.replace(cleaned, ":"): the first match of \s*:\s* becomes ":"
ColonWsReplace(s) ==
  The({The({IF q < 0 THEN t
            ELSE TrimEnd(TakeN(t, q)) \o <<":">> \o TrimStart(DropN(t, q + 1)) :
              q \in {Find(t, <<":">>)}}) :
         t \in {s}})

LineRefErr == [kind |-> "err", line |-> 0, hash |-> <<>>]

LineRefPanic == [kind |-> "panic", line |-> 0, hash |-> <<>>]

\* the body shared by the strict and the prefix branch: parse().unwrap(),
\* then the line < 1 check
LineRefFrom(digits, hash) ==
  The({IF ~n.ok THEN LineRefPanic
       ELSE IF n.v < 1 THEN LineRefErr
       ELSE [kind |-> "ok", line |-> n.v, hash |-> hash] :
         n \in {ParseUsize(digits)}})

\* the start of parse_line_ref: the display suffix "|..." and the text from
\* the first two spaces on are cut, the ">" markers and the blanks around
\* the rest removed, the blanks around the colon removed
CleanLineRef(ref_str) ==
  The({The({ColonWsReplace(Trim(DropN(c2, LeadingCount(c2, {">"})))) :
              c2 \in {IF Find(c1, <<" ", " ">>) >= 0
                      THEN TakeN(c1, Find(c1, <<" ", " ">>)) ELSE c1}}) :
         c1 \in {SplitOn(ref_str, "|")[1]}})

\* STRICT_RE, then PREFIX_RE, on the cleaned reference
MatchLineRef(normalized, nd) ==
  The({The({IF hasColon /\ na = Len(rest) /\ na >= 1 /\ na <= 16
            THEN LineRefFrom(TakeN(normalized, nd), rest)
            ELSE IF hasColon /\ na >= 2
            THEN LineRefFrom(TakeN(normalized, nd), TakeN(rest, 2))
            ELSE LineRefErr :
              na \in {LeadingCount(rest, AlnumChars)}}) :
         rest \in {DropN(normalized, nd + 1)},
         hasColon \in {nd >= 1 /\ Len(normalized) > nd /\ normalized[nd + 1] = ":"}})

\* parse_line_ref(ref_str): Ok(LineRef), Err(String), or a panic of unwrap()
parse_line_ref(ref_str) ==
  The({MatchLineRef(n, LeadingCount(n, RegexDigitChars)) : n \in {CleanLineRef(ref_str)}})

(***************************************************************************)
(* heuristics.rs                                                           *)
(***************************************************************************)
\* str::len(): the UTF-8 length.  A character written U+.... is a code point
\* outside ASCII: U+0663 takes two bytes, the hyphens U+2010.. three.
Utf8Len(c) ==
  IF c = "U+0663" THEN 2
  ELSE IF c \in {"U+2010", "U+2011", "U+2012", "U+2013", "U+2014", "U+2015",
                 "U+2212", "U+FE63", "U+FF0D"} THEN 3
  ELSE 1

RECURSIVE ByteLenTo(_, _)
ByteLenTo(s, n) == IF n = 0 THEN 0 ELSE ByteLenTo(s, n - 1) + Utf8Len(s[n])

ByteLen(s) == The({ByteLenTo(t, Len(t)) : t \in {s}})

\* the length of the match of \d+:[0-9a-zA-Z]{1,16}\| at the start of s,
\* -1 when there is none
RefPrefixLen(s) ==
  The({The({The({IF /\ nd >= 1 /\ Len(t) > nd /\ t[nd + 1] = ":"
                    /\ na >= 1 /\ na <= 16
                    /\ Len(t) > nd + 1 + na /\ t[nd + na + 2] = "|"
                 THEN nd + 1 + na + 1
                 ELSE -1 :
                   na \in {LeadingCount(DropN(t, nd + 1), AlnumChars)}}) :
              nd \in {LeadingCount(t, RegexDigitChars)}}) :
         t \in {s}})

\* the length of the optional marker >>> or >> at the start of s
MarkerLen(s) ==
  The({IF StartsWith(t, <<">", ">", ">">>) THEN 3
       ELSE IF StartsWith(t, <<">", ">">>) THEN 2 ELSE 0 : t \in {s}})

\* HASHLINE_PREFIX_RE: ^\s*(?:>>>|>>)?\s*\d+:[0-9a-zA-Z]{1,16}\|
\* the length of the match at the start of s, -1 when there is none
HashlinePrefixLen(s) ==
  The({The({The({The({IF m < 0 THEN -1 ELSE n1 + n2 + n3 + m :
                        m \in {RefPrefixLen(DropN(t, n1 + n2 + n3))}}) :
                   n3 \in {LeadingCount(DropN(t, n1 + n2), WhitespaceChars)}}) :
              n2 \in {MarkerLen(DropN(t, n1))}}) :
         t \in {s}, n1 \in {LeadingCount(s, WhitespaceChars)}})

has_diff_plus_prefix(s) ==
  The({StartsWith(t, <<"+">>) /\ ~StartsWith(t, <<"+", "+">>) : t \in {s}})

strip_diff_plus(s) == The({IF has_diff_plus_prefix(t) THEN DropN(t, 1) ELSE t : t \in {s}})

\* CONFUSABLE_HYPHENS_RE: [\u{2010}\u{2011}\u{2012}\u{2013}\u{2014}\u{2212}\u{FE63}\u{FF0D}]
CONFUSABLE_HYPHENS_RE ==
  {"U+2010", "U+2011", "U+2012", "U+2013", "U+2014", "U+2212", "U+FE63", "U+FF0D"}

has_confusable_hyphens(s) ==
  The({\E i \in 1..Len(t) : t[i] \in CONFUSABLE_HYPHENS_RE : t \in {s}})

normalize_confusable_hyphens(s) ==
  The({[i \in 1..Len(t) |-> IF t[i] \in CONFUSABLE_HYPHENS_RE THEN "-" ELSE t[i]] :
         t \in {s}})

normalize_confusable_hyphens_in_lines(lines) ==
  The({[i \in 1..Len(ls) |-> normalize_confusable_hyphens(ls[i])] : ls \in {lines}})

strip_all_whitespace(s) == SelectSeq(s, LAMBDA c : ~IsWs(c))

leading_whitespace(s) == The({TakeN(t, LeadingCount(t, WhitespaceChars)) : t \in {s}})

restore_leading_indent(template_line, line) ==
  The({IF l = <<>> THEN l
       ELSE IF indent = <<>> THEN l
       ELSE IF leading_whitespace(l) # <<>> THEN l
       ELSE indent \o l :
         l \in {line}, indent \in {leading_whitespace(template_line)}})

equals_ignoring_whitespace(a, b) ==
  The({x = y \/ strip_all_whitespace(x) = strip_all_whitespace(y) : x \in {a}, y \in {b}})

\* TRAILING_CONTINUATION_RE: (?:&&|\|\||\?\?|\?|:|=|,|\+|-|\*|/|\.|\()\s*$
\* strip_trailing_continuation_tokens replaces its leftmost match by ""
strip_trailing_continuation_tokens(s) ==
  The({The({IF n >= 2 /\ SubSeq(t, n - 1, n) \in {<<"&", "&">>, <<"|", "|">>, <<"?", "?">>}
            THEN TakeN(t, n - 2)
            ELSE IF n >= 1 /\ t[n] \in {"?", ":", "=", ",", "+", "-", "*", "/", ".", "("}
            THEN TakeN(t, n - 1)
            ELSE s0 :
              n \in {Len(t)}}) :
         s0 \in {s}, t \in {TrimEnd(s)}})

strip_merge_operator_chars(s) == SelectSeq(s, LAMBDA c : c \notin {"|", "&", "?"})

\* the number of elements of the sequence ls that satisfy P
CountIf(ls, P(_)) == Cardinality({i \in 1..Len(ls) : P(ls[i])})

strip_new_line_prefixes(lines) ==
  The({The({The({IF non_empty = 0 THEN ls
                 ELSE IF ~strip_hash /\ ~strip_plus THEN ls
                 ELSE [i \in 1..Len(ls) |->
                         IF strip_hash
                         THEN The({IF n >= 0 THEN DropN(ls[i], n) ELSE ls[i] :
                                     n \in {HashlinePrefixLen(ls[i])}})
                         ELSE strip_diff_plus(ls[i])] :
                   strip_hash \in {hash_prefix_count > 0 /\ hash_prefix_count * 2 >= non_empty},
                   strip_plus \in {/\ ~(hash_prefix_count > 0
                                        /\ hash_prefix_count * 2 >= non_empty)
                                   /\ diff_plus_count > 0
                                   /\ diff_plus_count * 2 >= non_empty}}) :
              non_empty \in {CountIf(ls, LAMBDA l : l # <<>>)},
              hash_prefix_count \in
                {CountIf(ls, LAMBDA l : l # <<>> /\ HashlinePrefixLen(l) >= 0)},
              diff_plus_count \in
                {CountIf(ls, LAMBDA l : l # <<>> /\ has_diff_plus_prefix(l))}}) :
         ls \in {lines}})

restore_indent_for_paired_replacement(old_lines, new_lines) ==
  The({IF Len(os) # Len(ns) THEN ns
       ELSE [i \in 1..Len(ns) |-> restore_leading_indent(os[i], ns[i])] :
         os \in {old_lines}, ns \in {new_lines}})

\* strip_insert_anchor_echo_after had it never dropped a line
strip_insert_anchor_echo_after_never(anchor_line, dst_lines) == dst_lines

strip_insert_anchor_echo_after(anchor_line, dst_lines) ==
  The({IF Len(ds) <= 1 THEN ds
       ELSE IF equals_ignoring_whitespace(ds[1], anchor_line) THEN Tail(ds)
       ELSE ds :
         ds \in {dst_lines}})

\* the first test of strip_range_boundary_echo: the first replacement line
\* echoes the line before the range
StripEchoBefore(lines, start_line, dst_lines) ==
  IF start_line >= 2 /\ equals_ignoring_whitespace(dst_lines[1], lines[start_line - 1])
  THEN Tail(dst_lines) ELSE dst_lines

\* the second test: the last line left echoes the line after the range
StripEchoAfter(lines, end_line, out) ==
  The({IF end_line < Len(lines) /\ o # <<>>
          /\ equals_ignoring_whitespace(o[Len(o)], lines[end_line + 1])
       THEN TakeN(o, Len(o) - 1) ELSE o :
         o \in {out}})

strip_range_boundary_echo(lines, start_line, end_line, dst_lines) ==
  The({IF Len(ds) <= 1 \/ Len(ds) <= end_line - start_line + 1 THEN ds
       ELSE StripEchoAfter(ls, end_line, StripEchoBefore(ls, start_line, ds)) :
         ls \in {lines}, ds \in {dst_lines}})

\* Vec::splice(start..start + len, repl) with 0-based start
SpliceSeq(v, start, len, repl) ==
  The({SubSeq(w, 1, start) \o repl \o SubSeq(w, start + len + 1, Len(w)) : w \in {v}})

\* restore_old_wrapped_lines: the candidate spans <<start, len>> (0-based
\* start) of new_lines whose whitespace-stripped concatenation equals the
\* whitespace-stripped form of exactly one old line and has 6 bytes or more
WrapCanonOfSpan(new_lines, c) ==
  strip_all_whitespace(Concat(SubSeq(new_lines, c[1] + 1, c[1] + c[2])))

WrapMinLen == 6

WrapMaxSpan == 10

\* how many old lines have the canonical form canon
WrapOldCount(old_lines, canon) ==
  The({Cardinality({i \in 1..Len(old_lines) : strip_all_whitespace(old_lines[i]) = cn}) :
         cn \in {canon}})

WrapCandidates(old_lines, new_lines) ==
  The({{c \in UNION {{<<st, len>> :
                        len \in 2..(IF WrapMaxSpan < n - st THEN WrapMaxSpan ELSE n - st)} :
                       st \in 0..(n - 1)} :
          The({/\ WrapOldCount(old_lines, canon) = 1
               /\ ByteLen(canon) >= WrapMinLen :
                 canon \in {WrapCanonOfSpan(new_lines, c)}})} :
         n \in {Len(new_lines)}})

\* the candidates whose canonical form no other candidate shares, sorted by
\* start descending (a stable sort of the order start, len ascending)
RECURSIVE WrapSorted(_)
WrapSorted(cs) ==
  The({IF set = {} THEN <<>>
       ELSE The({<<c>> \o WrapSorted(set \ {c}) :
                   c \in {CHOOSE x \in set :
                            \A y \in set : x[1] > y[1] \/ (x[1] = y[1] /\ x[2] <= y[2])}}) :
         set \in {cs}})

\* the first old line whose canonical form is canon
WrapOldLine(old_lines, canon) ==
  The({old_lines[CHOOSE i \in 1..Len(old_lines) :
                   /\ strip_all_whitespace(old_lines[i]) = cn
                   /\ \A j \in 1..(i - 1) : strip_all_whitespace(old_lines[j]) # cn] :
         cn \in {canon}})

\* the splices of the sorted candidates, back to front; a splice whose range
\* ends beyond the vector panics
RECURSIVE WrapApply(_, _, _, _)
WrapApply(out, sorted, old_lines, new_lines) ==
  The({IF srt = <<>> THEN [panic |-> FALSE, lines |-> o]
       ELSE IF srt[1][1] + srt[1][2] > Len(o)
       THEN [panic |-> TRUE, lines |-> o]
       ELSE WrapApply(SpliceSeq(o, srt[1][1], srt[1][2],
                                <<WrapOldLine(old_lines, WrapCanonOfSpan(new_lines, srt[1]))>>),
                      Tail(srt), old_lines, new_lines) :
         o \in {out}, srt \in {sorted}})

restore_old_wrapped_lines(old_lines, new_lines) ==
  The({IF os = <<>> \/ Len(ns) < 2
       THEN [panic |-> FALSE, lines |-> ns]
       ELSE The({WrapApply(ns,
                           WrapSorted({c \in cands :
                                         Cardinality({d \in cands :
                                                        WrapCanonOfSpan(ns, d)
                                                          = WrapCanonOfSpan(ns, c)}) = 1}),
                           os, ns) :
                   cands \in {WrapCandidates(os, ns)}}) :
         os \in {old_lines}, ns \in {new_lines}})

MergeSlack == 32

\* maybe_expand_single_line_merge: None, or Some of (start, delete_count, new_lines)
\* case A of the merge: the line ends in a continuation token and the new
\* line holds it and the next line, in this order
MergeWithNext(line, new_canon, lines, explicitly_touched) ==
  The({/\ ByteLen(orig_canon_for_match) < ByteLen(orig_canon)
       /\ line < Len(lines)
       /\ (line + 1) \notin explicitly_touched
       /\ The({/\ Find(new_canon, orig_canon_for_match) >= 0
               /\ Find(new_canon, next_canon) >= 0
               /\ Find(new_canon, orig_canon_for_match) < Find(new_canon, next_canon)
               /\ ByteLen(new_canon) <= ByteLen(orig_canon) + ByteLen(next_canon) + MergeSlack :
                 next_canon \in {strip_all_whitespace(lines[line + 1])}}) :
         orig_canon \in {strip_all_whitespace(lines[line])},
         orig_canon_for_match \in
           {strip_trailing_continuation_tokens(strip_all_whitespace(lines[line]))}})

\* MergeWithPrev had it absorbed a previous line that an edit targets
MergeWithPrevTouched(line, new_canon, lines, explicitly_touched) ==
  /\ line >= 2
  /\ The({/\ ByteLen(prev_canon_for_match) < ByteLen(prev_canon)
          /\ The({a >= 0 /\ b >= 0 /\ a < b :
                    a \in {Find(strip_merge_operator_chars(new_canon),
                                strip_merge_operator_chars(prev_canon_for_match))},
                    b \in {Find(strip_merge_operator_chars(new_canon),
                                strip_merge_operator_chars(orig_canon))}})
          /\ ByteLen(new_canon) <= ByteLen(prev_canon) + ByteLen(orig_canon) + MergeSlack :
            orig_canon \in {strip_all_whitespace(lines[line])},
            prev_canon \in {strip_all_whitespace(lines[line - 1])},
            prev_canon_for_match \in
              {strip_trailing_continuation_tokens(strip_all_whitespace(lines[line - 1]))}})

\* case B of the merge: the previous line ends in a continuation token and
\* the new line holds it and the line, in this order, merge operators aside
MergeWithPrev(line, new_canon, lines, explicitly_touched) ==
  /\ line >= 2
  /\ (line - 1) \notin explicitly_touched
  /\ The({/\ ByteLen(prev_canon_for_match) < ByteLen(prev_canon)
          /\ The({a >= 0 /\ b >= 0 /\ a < b :
                    a \in {Find(strip_merge_operator_chars(new_canon),
                                strip_merge_operator_chars(prev_canon_for_match))},
                    b \in {Find(strip_merge_operator_chars(new_canon),
                                strip_merge_operator_chars(orig_canon))}})
          /\ ByteLen(new_canon) <= ByteLen(prev_canon) + ByteLen(orig_canon) + MergeSlack :
            orig_canon \in {strip_all_whitespace(lines[line])},
            prev_canon \in {strip_all_whitespace(lines[line - 1])},
            prev_canon_for_match \in
              {strip_trailing_continuation_tokens(strip_all_whitespace(lines[line - 1]))}})

\* maybe_expand_single_line_merge: None, or Some of (start, delete_count, new_lines)
maybe_expand_single_line_merge(line, dst, lines, explicitly_touched) ==
  The({IF Len(d) # 1 THEN None
       ELSE IF line < 1 \/ line > Len(ls) THEN None
       ELSE IF strip_all_whitespace(d[1]) = <<>> \/ strip_all_whitespace(ls[line]) = <<>>
       THEN None
       ELSE IF MergeWithNext(line, strip_all_whitespace(d[1]), ls, explicitly_touched)
       THEN Some([start |-> line, delete_count |-> 2, new_lines |-> <<d[1]>>])
       ELSE IF MergeWithPrev(line, strip_all_whitespace(d[1]), ls, explicitly_touched)
       THEN Some([start |-> line - 1, delete_count |-> 2, new_lines |-> <<d[1]>>])
       ELSE None :
         d \in {dst}, ls \in {lines}})

(***************************************************************************)
(* edit.rs: the edits and their parsed form                                *)
(*                                                                         *)
(* A HashlineEdit is a record [op, anchor, end_anchor, new_text, content,  *)
(* old_text]: op names the variant; anchor is set_line.anchor,             *)
(* replace_lines.start_anchor or insert_after.anchor; new_text is the      *)
(* Option new_text (insert_after: text); content is insert_after.content;  *)
(* old_text is replace.old_text.  Fields a variant lacks are None.         *)
(***************************************************************************)
SetLine(anchor, new_text) ==
  [op |-> "set_line", anchor |-> anchor, end_anchor |-> None,
   new_text |-> Some(new_text), content |-> None, old_text |-> None]

ReplaceLines(start_anchor, end_anchor, new_text) ==
  [op |-> "replace_lines", anchor |-> start_anchor, end_anchor |-> end_anchor,
   new_text |-> new_text, content |-> None, old_text |-> None]

InsertAfter(anchor, text, content) ==
  [op |-> "insert_after", anchor |-> anchor, end_anchor |-> None,
   new_text |-> text, content |-> content, old_text |-> None]

Replace(old_text, new_text) ==
  [op |-> "replace", anchor |-> <<>>, end_anchor |-> None,
   new_text |-> Some(new_text), content |-> None, old_text |-> Some(old_text)]

\* Option::unwrap_or_default on an Option<String>
UnwrapOrDefault(o) == IF o = None THEN <<>> ELSE o[1]

\* ParsedRefs: Single {line, hash}, InsertAfter {line, hash} or
\* Range {start_line, start_hash, end_line, end_hash} (line, hash are the start)
Refs(kind, line, hash, end_line, end_hash) ==
  [kind |-> kind, line |-> line, hash |-> hash, end_line |-> end_line, end_hash |-> end_hash]

NoRefs == Refs("Single", 0, <<>>, 0, <<>>)

ParseFailed(kind) == [kind |-> kind, spec |-> NoRefs, dst |-> <<>>]

\* the ReplaceLines arm of parse_hashline_edit, once start_anchor is parsed
ParseReplaceLinesEnd(edit, start) ==
  IF edit.end_anchor = None
  THEN [kind |-> "ok", spec |-> Refs("Single", start.line, start.hash, 0, <<>>),
        dst |-> UnwrapOrDefault(edit.new_text)]
  ELSE The({IF end.kind # "ok" THEN ParseFailed(end.kind)
            ELSE IF start.line = end.line
            THEN [kind |-> "ok", spec |-> Refs("Single", start.line, start.hash, 0, <<>>),
                  dst |-> UnwrapOrDefault(edit.new_text)]
            ELSE [kind |-> "ok",
                  spec |-> Refs("Range", start.line, start.hash, end.line, end.hash),
                  dst |-> UnwrapOrDefault(edit.new_text)] :
              end \in {parse_line_ref(edit.end_anchor[1])}})

\* parse_hashline_edit: Ok((ParsedRefs, String)), Err, or a panic
parse_hashline_edit(edit) ==
  The({IF e.op = "replace" THEN ParseFailed("err")
       ELSE The({IF r.kind # "ok" THEN ParseFailed(r.kind)
                 ELSE IF e.op = "set_line"
                 THEN [kind |-> "ok", spec |-> Refs("Single", r.line, r.hash, 0, <<>>),
                       dst |-> e.new_text[1]]
                 ELSE IF e.op = "replace_lines" THEN ParseReplaceLinesEnd(e, r)
                 ELSE [kind |-> "ok", spec |-> Refs("InsertAfter", r.line, r.hash, 0, <<>>),
                       dst |-> UnwrapOrDefault(IF e.new_text # None THEN e.new_text
                                               ELSE e.content)] :
                   r \in {parse_line_ref(e.anchor)}}) :
         e \in {edit}})

\* split_dst_lines had it split the empty string like any other
split_dst_lines_keep_empty(dst) == SplitOn(dst, LF)

split_dst_lines(dst) == The({IF d = <<>> THEN <<>> ELSE SplitOn(d, LF) : d \in {dst}})

\* the "parse all edits up front" loop from the edit i on: the ParsedEdits
\* (idx is the 0-based position in the batch), or the first Err or panic
RECURSIVE ParseAll(_, _)
ParseAll(edits, i) ==
  The({IF i > Len(es) THEN [kind |-> "ok", parsed |-> <<>>]
       ELSE The({IF r.kind # "ok" THEN [kind |-> r.kind, parsed |-> <<>>]
                 ELSE The({IF rest.kind # "ok" THEN rest
                           ELSE [kind |-> "ok",
                                 parsed |->
                                   <<[idx |-> i - 1, spec |-> r.spec,
                                      dst_lines |->
                                        strip_new_line_prefixes(split_dst_lines(r.dst))]>>
                                   \o rest.parsed] :
                             rest \in {ParseAll(es, i + 1)}}) :
                   r \in {parse_hashline_edit(es[i])}}) :
         es \in {edits}})

\* collect_touched
collect_touched(parsed) ==
  The({UNION {IF ps[i].spec.kind = "Range"
              THEN ps[i].spec.line..ps[i].spec.end_line
              ELSE {ps[i].spec.line} : i \in 1..Len(ps)} :
         ps \in {parsed}})

\* unique_line_by_hash had it kept the first line of a hash that several
\* lines have
unique_line_by_hash_first(lines) ==
  The({[h \in {hs[n] : n \in 1..Len(hs)} |->
          CHOOSE n \in 1..Len(hs) : hs[n] = h /\ \A m \in 1..(n - 1) : hs[m] # h] :
         hs \in {[n \in 1..Len(lines) |-> compute_line_hash(n, lines[n])]}})

\* unique_line_by_hash: the hashes that exactly one line of the file has
unique_line_by_hash(lines) ==
  The({[h \in {g \in {hs[n] : n \in 1..Len(hs)} :
                 Cardinality({n \in 1..Len(hs) : hs[n] = g}) = 1} |->
          CHOOSE n \in 1..Len(hs) : hs[n] = h] :
         hs \in {[n \in 1..Len(lines) |-> compute_line_hash(n, lines[n])]}})

HashMismatch(line, expected, actual) ==
  [line |-> line, expected |-> expected, actual |-> actual]

\* validate_or_relocate had it not compared the hashes
validate_or_relocate_unchecked(line, hash, lines, uniq) ==
  [ok |-> ~(line < 1 \/ line > Len(lines)), line |-> line, pushed |-> <<>>]

\* validate_or_relocate: the bool it returns, the line it leaves in *line and
\* the mismatches it pushes
validate_or_relocate(line, hash, lines, uniq) ==
  IF line < 1 \/ line > Len(lines)
  THEN [ok |-> FALSE, line |-> line, pushed |-> <<>>]
  ELSE The({IF actual = expected
            THEN [ok |-> TRUE, line |-> line, pushed |-> <<>>]
            ELSE IF expected \in DOMAIN u
            THEN [ok |-> TRUE, line |-> u[expected], pushed |-> <<>>]
            ELSE [ok |-> FALSE, line |-> line,
                  pushed |-> <<HashMismatch(line, hash, actual)>>] :
              expected \in {ToLowercase(hash)},
              actual \in {compute_line_hash(line, lines[line])},
              u \in {uniq}})

\* the end of the Range arm, the endpoints validated (sv, ev).
\* relocated_count is *end_line - *start_line + 1 on usize: with the end
\* before the start the subtraction overflows, which panics in a build with
\* overflow checks and wraps modulo 2^64 otherwise.  The wrapped value is
\* compared with original_count only; for numbers this small equality modulo
\* 2^64 is equality of the integers, so the integer difference stands for it.
RangeRelocated(p, sv, ev, lines, overflow_checks) ==
  LET original_start == p.spec.line
      original_end == p.spec.end_line
      original_count == original_end - original_start + 1
      relocated_count == ev.line - sv.line + 1
      changed_by_relocation == sv.line # original_start \/ ev.line # original_end
      invalid_range == sv.line > ev.line
      scope_changed == relocated_count # original_count
      moved == [p EXCEPT !.spec.line = sv.line, !.spec.end_line = ev.line]
  IN IF ~(sv.ok /\ ev.ok)
     THEN [kind |-> "ok", p |-> moved, pushed |-> sv.pushed \o ev.pushed]
     ELSE IF ev.line < sv.line /\ overflow_checks
     THEN [kind |-> "panic", p |-> moved, pushed |-> <<>>]
     ELSE IF changed_by_relocation /\ (invalid_range \/ scope_changed)
     THEN [kind |-> "ok", p |-> p,
           pushed |-> <<HashMismatch(original_start, p.spec.hash,
                                     compute_line_hash(original_start, lines[original_start])),
                        HashMismatch(original_end, p.spec.end_hash,
                                     compute_line_hash(original_end, lines[original_end]))>>]
     ELSE [kind |-> "ok", p |-> moved, pushed |-> <<>>]

\* the Range arm of the validation loop, after its bounds checks
ValidateRange(p, lines, uniq, overflow_checks) ==
  The({RangeRelocated(q, sv, ev, lines, overflow_checks) :
         q \in {p},
         sv \in {validate_or_relocate(p.spec.line, p.spec.hash, lines, uniq)},
         ev \in {validate_or_relocate(p.spec.end_line, p.spec.end_hash, lines, uniq)}})

OutOfRange(line, lines) == line < 1 \/ line > Len(lines)

\* ValidateSingle had it left the empty dst_lines of an InsertAfter empty
ValidateSingleNoPromote(p, lines, uniq) ==
  The({[kind |-> "ok", p |-> [p EXCEPT !.spec.line = v.line], pushed |-> v.pushed] :
         v \in {validate_or_relocate(p.spec.line, p.spec.hash, lines, uniq)}})

\* the Single and the InsertAfter arm, after the bounds check
ValidateSingle(p, lines, uniq) ==
  The({[kind |-> "ok",
        p |-> [p EXCEPT !.spec.line = v.line,
                        !.dst_lines = IF p.spec.kind = "InsertAfter" /\ p.dst_lines = <<>>
                                      THEN << <<>> >> ELSE p.dst_lines],
        pushed |-> v.pushed] :
         v \in {validate_or_relocate(p.spec.line, p.spec.hash, lines, uniq)}})

\* one iteration of the validation loop on the parsed edit p: "err" is the
\* return of a bounds error, pushed are the mismatches it appends
ValidateOne(p, lines, uniq, overflow_checks) ==
  The({IF q.spec.kind \in {"Single", "InsertAfter"}
       THEN IF OutOfRange(q.spec.line, ls)
            THEN [kind |-> "err", p |-> q, pushed |-> <<>>]
            ELSE ValidateSingle(q, ls, u)
       ELSE IF OutOfRange(q.spec.line, ls) \/ OutOfRange(q.spec.end_line, ls)
               \/ q.spec.line > q.spec.end_line
       THEN [kind |-> "err", p |-> q, pushed |-> <<>>]
       ELSE ValidateRange(q, ls, u, overflow_checks) :
         q \in {p}, ls \in {lines}, u \in {uniq}})

\* the key of the deduplication: format!("{}|{}", line_key, dst_lines.join("\n"))
DedupKey(p) ==
  (IF p.spec.kind = "Single" THEN <<"s", ":">> \o FormatNat(p.spec.line)
   ELSE IF p.spec.kind = "Range"
   THEN <<"r", ":">> \o FormatNat(p.spec.line) \o <<":">> \o FormatNat(p.spec.end_line)
   ELSE <<"i", ":">> \o FormatNat(p.spec.line))
  \o <<"|">> \o JoinWith(p.dst_lines, <<LF>>)

\* Dedup had it removed nothing
DedupNone(parsed) == parsed

\* "Deduplicate identical edits": every edit whose key an earlier one has is removed
Dedup(parsed) ==
  The({The({[k \in 1..Len(keep) |-> ps[keep[k]]] :
              keep \in {SelectSeq([i \in 1..Len(ps) |-> i],
                                  LAMBDA i : \A j \in 1..(i - 1) : ks[j] # ks[i])}}) :
         ps \in {parsed}, ks \in {[i \in 1..Len(parsed) |-> DedupKey(parsed[i])]}})

sort_line(p) == IF p.spec.kind = "Range" THEN p.spec.end_line ELSE p.spec.line

prec(p) == IF p.spec.kind = "InsertAfter" THEN 1 ELSE 0

\* the comparator of parsed.sort_by: a comes before b
SortBefore(a, b) ==
  \/ sort_line(a) > sort_line(b)
  \/ sort_line(a) = sort_line(b) /\ prec(a) < prec(b)
  \/ sort_line(a) = sort_line(b) /\ prec(a) = prec(b) /\ a.idx < b.idx

\* SortBottomUp had it left the edits in input order
SortNone(parsed) == parsed

\* "Sort bottom-up"
RECURSIVE SortBottomUp(_)
SortBottomUp(parsed) ==
  The({IF ps = <<>> THEN <<>>
       ELSE The({<<ps[k]>>
                   \o SortBottomUp(SubSeq(ps, 1, k - 1) \o SubSeq(ps, k + 1, Len(ps))) :
                   k \in {CHOOSE i \in 1..Len(ps) :
                            \A j \in 1..Len(ps) : j = i \/ SortBefore(ps[i], ps[j])}}) :
         ps \in {parsed}})

\* track_first_changed had it recorded the line after the splice
track_first_changed_after(first, line) == Some(line + 1)

\* track_first_changed
track_first_changed(first, line) ==
  IF first = None \/ line < first[1] THEN Some(line) ELSE first

NoopEdit(edit_index, loc, current_content) ==
  [edit_index |-> edit_index, loc |-> loc, current_content |-> current_content]

\* the state of the splice loop: the owned vector of lines, first_changed_line,
\* noop_edits, and whether a slice or a splice out of range has panicked
SpliceState(panic, lines, first, noops) ==
  [panic |-> panic, file_lines |-> lines, first_changed_line |-> first, noop_edits |-> noops]

\* format!("{}:{}", line, hash)
FormatLoc(line, hash) == FormatNat(line) \o <<":">> \o hash

\* the no-op check and the splice that end the Single and the Range arm:
\* orig_lines against next_lines, then file_lines.splice(start - 1..start - 1 + count)
NoopOrSplice(st, idx, loc, start, count, orig_lines, next_lines) ==
  The({IF orig = JoinWith(hy, <<LF>>)
       THEN SpliceState(FALSE, st.file_lines, st.first_changed_line,
                        Append(st.noop_edits, NoopEdit(idx, loc, orig)))
       ELSE IF start - 1 + count > Len(st.file_lines)
       THEN SpliceState(TRUE, st.file_lines, st.first_changed_line, st.noop_edits)
       ELSE SpliceState(FALSE, SpliceSeq(st.file_lines, start - 1, count, hy),
                        track_first_changed(st.first_changed_line, start), st.noop_edits) :
         orig \in {JoinWith(orig_lines, <<LF>>)},
         hy \in {IF JoinWith(orig_lines, <<LF>>) = JoinWith(next_lines, <<LF>>)
                    /\ \E i \in 1..Len(orig_lines) : has_confusable_hyphens(orig_lines[i])
                 THEN normalize_confusable_hyphens_in_lines(next_lines)
                 ELSE next_lines}})

\* the Single arm when maybe_expand_single_line_merge returned Some(m)
SpliceMerge(st, e, m, original_file_lines) ==
  IF m.start - 1 + m.delete_count > Len(original_file_lines)
  THEN SpliceState(TRUE, st.file_lines, st.first_changed_line, st.noop_edits)
  ELSE The({NoopOrSplice(st, e.idx, FormatLoc(e.spec.line, e.spec.hash),
                         m.start, m.delete_count, orig_lines,
                         restore_indent_for_paired_replacement(<<orig_lines[1]>>,
                                                               m.new_lines)) :
              orig_lines \in {SubSeq(original_file_lines, m.start,
                                     m.start - 1 + m.delete_count)}})

\* the Single arm without a merge (start = end = line) and the Range arm
SpliceSpan(st, e, start, end_, original_file_lines) ==
  The({The({IF wrapped.panic
            THEN SpliceState(TRUE, st.file_lines, st.first_changed_line, st.noop_edits)
            ELSE NoopOrSplice(st, e.idx, FormatLoc(start, e.spec.hash),
                              start, end_ - start + 1, orig_lines,
                              restore_indent_for_paired_replacement(orig_lines,
                                                                    wrapped.lines)) :
              wrapped \in
                {restore_old_wrapped_lines(
                   orig_lines,
                   strip_range_boundary_echo(original_file_lines, start, end_,
                                             e.dst_lines))}}) :
         orig_lines \in {SubSeq(original_file_lines, start, end_)}})

\* the InsertAfter arm
SpliceInsert(st, e, original_file_lines) ==
  The({IF inserted = <<>>
       THEN SpliceState(FALSE, st.file_lines, st.first_changed_line,
                        Append(st.noop_edits,
                               NoopEdit(e.idx, FormatLoc(e.spec.line, e.spec.hash),
                                        original_file_lines[e.spec.line])))
       ELSE IF e.spec.line > Len(st.file_lines)
       THEN SpliceState(TRUE, st.file_lines, st.first_changed_line, st.noop_edits)
       ELSE SpliceState(FALSE, SpliceSeq(st.file_lines, e.spec.line, 0, inserted),
                        track_first_changed(st.first_changed_line, e.spec.line + 1),
                        st.noop_edits) :
         inserted \in {strip_insert_anchor_echo_after(original_file_lines[e.spec.line],
                                                      e.dst_lines)}})

\* one iteration of the "Apply edits bottom-up" loop
SpliceOne(st, e, original_file_lines, explicitly_touched_lines) ==
  IF e.spec.kind = "Single"
  THEN The({IF m # None
            THEN SpliceMerge(st, e, m[1], original_file_lines)
            ELSE SpliceSpan(st, e, e.spec.line, e.spec.line, original_file_lines) :
              m \in {maybe_expand_single_line_merge(e.spec.line, e.dst_lines, st.file_lines,
                                                    explicitly_touched_lines)}})
  ELSE IF e.spec.kind = "Range"
  THEN SpliceSpan(st, e, e.spec.line, e.spec.end_line, original_file_lines)
  ELSE SpliceInsert(st, e, original_file_lines)

WarnFactor == 4

\* the "Warnings" block: the diff line counts that exceed edits.len() * 4
Warnings(lines, original_file_lines, n_edits) ==
  The({IF diff_line_count > n_edits * WarnFactor THEN <<diff_line_count>> ELSE <<>> :
         diff_line_count \in
           {(IF Len(lines) < Len(original_file_lines)
             THEN Len(original_file_lines) - Len(lines)
             ELSE Len(lines) - Len(original_file_lines))
            + Cardinality({i \in 1..Len(lines) :
                             /\ i <= Len(original_file_lines)
                             /\ lines[i] # original_file_lines[i]})}})

(***************************************************************************)
(* edit.rs: apply_replace_edits                                            *)
(***************************************************************************)
\* str::match_indices on a non-empty needle: the 0-based offsets of the
\* non-overlapping matches, found left to right
RECURSIVE MatchIndicesFrom(_, _, _)
MatchIndicesFrom(hay, needle, from) ==
  The({The({IF rel < 0 THEN <<>>
            ELSE <<f + rel>> \o MatchIndicesFrom(hay, needle, f + rel + Len(needle)) :
              rel \in {Find(DropN(hay, f), needle)}}) :
         f \in {from}})

MatchIndices(hay, needle) ==
  The({MatchIndicesFrom(h, n, 0) : h \in {hay}, n \in {needle}})

ReplaceState(kind, content, replacements, first) ==
  [kind |-> kind, content |-> content, replacements |-> replacements,
   first_changed_line |-> first]

\* one iteration of the loop of apply_replace_edits on a Replace edit
ReplaceOne(st, old, new) ==
  IF old = <<>> THEN ReplaceState("err", <<>>, 0, None)
  ELSE The({IF ms = <<>> THEN ReplaceState("err", <<>>, 0, None)
            ELSE IF Len(ms) > 1 THEN ReplaceState("err", <<>>, 0, None)
            ELSE The({ReplaceState("ok",
                                   SpliceSeq(st.content, ms[1], Len(old), new),
                                   st.replacements + 1,
                                   IF st.first_changed_line = None
                                      \/ line < st.first_changed_line[1]
                                   THEN Some(line) ELSE st.first_changed_line) :
                        line \in {Cardinality({k \in 1..ms[1] : st.content[k] = LF}) + 1}}) :
              ms \in {MatchIndices(st.content, old)}})

\* apply_replace_edits from the edit i on: Ok(ReplaceResult) or Err
RECURSIVE ReplaceFrom(_, _, _)
ReplaceFrom(st, edits, i) ==
  The({IF s0.kind = "err" \/ i > Len(edits) THEN s0
       ELSE IF edits[i].op # "replace" THEN ReplaceFrom(s0, edits, i + 1)
       ELSE ReplaceFrom(ReplaceOne(s0, edits[i].old_text[1], edits[i].new_text[1]),
                        edits, i + 1) :
         s0 \in {st}})

apply_replace_edits(content, edits) ==
  The({ReplaceFrom(ReplaceState("ok", content, 0, None), es, 1) : es \in {edits}})

(***************************************************************************)
(* util.rs, error.rs                                                       *)
(***************************************************************************)
\* String::replace("\r\n", "\n")
RECURSIVE ReplaceCrLf(_)
ReplaceCrLf(s) ==
  The({IF t = <<>> THEN <<>>
       ELSE IF Len(t) >= 2 /\ t[1] = "\r" /\ t[2] = LF THEN <<LF>> \o ReplaceCrLf(DropN(t, 2))
       ELSE <<t[1]>> \o ReplaceCrLf(DropN(t, 1)) :
         t \in {s}})

\* read_normalized on the bytes of an existing file
read_normalized(bytes) ==
  The({IF content # <<>> /\ content[Len(content)] = LF
       THEN TakeN(content, Len(content) - 1)
       ELSE content :
         content \in {ReplaceCrLf(bytes)}})

\* HashlineMismatchError::remaps: old "LINE:HASH" -> new "LINE:HASH"
remaps(mismatches, lines) ==
  The({[k \in {keys[i] : i \in 1..Len(keys)} |->
          The({FormatLoc(mismatches[last].line,
                         compute_line_hash(mismatches[last].line,
                                           lines[mismatches[last].line])) :
                 last \in {CHOOSE i \in 1..Len(keys) :
                             keys[i] = k /\ \A j \in (i + 1)..Len(keys) : keys[j] # k}})] :
         keys \in {[i \in 1..Len(mismatches) |->
                      FormatLoc(mismatches[i].line, mismatches[i].expected)]}})

MISMATCH_CONTEXT == 2

\* the rest of the first line of the report, after the count
ReportHeaderOne ==
  <<" ", "l", "i", "n", "e", " ", "h", "a", "s", " ", "c", "h", "a",
    "n", "g", "e", "d", " ", "s", "i", "n", "c", "e", " ", "l", "a",
    "s", "t", " ", "r", "e", "a", "d", ".", " ", "U", "s", "e", " ",
    "t", "h", "e", " ", "u", "p", "d", "a", "t", "e", "d", " ", "L",
    "I", "N", "E", ":", "H", "A", "S", "H", " ", "r", "e", "f", "e",
    "r", "e", "n", "c", "e", "s", " ", "s", "h", "o", "w", "n", " ",
    "b", "e", "l", "o", "w", " ", "(", ">", ">", ">", " ", "m", "a",
    "r", "k", "s", " ", "c", "h", "a", "n", "g", "e", "d", " ", "l",
    "i", "n", "e", "s", ")", ".">>

ReportHeaderMany ==
  <<" ", "l", "i", "n", "e", "s", " ", "h", "a", "v", "e", " ", "c",
    "h", "a", "n", "g", "e", "d", " ", "s", "i", "n", "c", "e", " ",
    "l", "a", "s", "t", " ", "r", "e", "a", "d", ".", " ", "U", "s",
    "e", " ", "t", "h", "e", " ", "u", "p", "d", "a", "t", "e", "d",
    " ", "L", "I", "N", "E", ":", "H", "A", "S", "H", " ", "r", "e",
    "f", "e", "r", "e", "n", "c", "e", "s", " ", "s", "h", "o", "w",
    "n", " ", "b", "e", "l", "o", "w", " ", "(", ">", ">", ">", " ",
    "m", "a", "r", "k", "s", " ", "c", "h", "a", "n", "g", "e", "d",
    " ", "l", "i", "n", "e", "s", ")", ".">>

\* display_lines: the mismatched lines with MISMATCH_CONTEXT lines around each
DisplayLines(mismatches, lines) ==
  UNION {(IF mismatches[i].line > MISMATCH_CONTEXT
          THEN mismatches[i].line - MISMATCH_CONTEXT ELSE 1)
         .. (IF Len(lines) < mismatches[i].line + MISMATCH_CONTEXT
             THEN Len(lines) ELSE mismatches[i].line + MISMATCH_CONTEXT) :
           i \in 1..Len(mismatches)}

\* the loop over the sorted display lines from line_num on: "    ..." before
\* a gap, ">>> LINE:HASH|content" for a mismatched line, four spaces before
\* the anchor of a context line
RECURSIVE ReportFrom(_, _, _, _, _)
ReportFrom(display, mismatch_set, lines, line_num, prev_line) ==
  IF line_num > Len(lines) THEN <<>>
  ELSE IF line_num \notin display
  THEN ReportFrom(display, mismatch_set, lines, line_num + 1, prev_line)
  ELSE (IF prev_line # None /\ line_num > prev_line[1] + 1
        THEN << <<" ", " ", " ", " ", ".", ".", ".">> >> ELSE <<>>)
       \o << (IF line_num \in mismatch_set THEN <<">", ">", ">", " ">>
              ELSE <<" ", " ", " ", " ">>)
             \o FormatLoc(line_num, compute_line_hash(line_num, lines[line_num]))
             \o <<"|">> \o lines[line_num] >>
       \o ReportFrom(display, mismatch_set, lines, line_num + 1, Some(line_num))

\* HashlineMismatchError::format_message: the lines of the message
format_message(mismatches, lines) ==
  The({<<FormatNat(Len(ms)) \o (IF Len(ms) > 1 THEN ReportHeaderMany ELSE ReportHeaderOne),
         <<>> >>
       \o ReportFrom(DisplayLines(ms, ls), {ms[i].line : i \in 1..Len(ms)}, ls, 1, None) :
         ms \in {mismatches}, ls \in {lines}})

(***************************************************************************)
(* json.rs: values, paths, the canonical hash                              *)
(*                                                                         *)
(* A serde_json Value is a record tagged by t: null, bool (b), num (n),    *)
(* str (s), arr (a: a sequence of values) or obj (m: a function from the   *)
(* keys, which are strings, to values).                                    *)
(***************************************************************************)
JNull == [t |-> "null"]

JBool(b) == [t |-> "bool", b |-> b]

JNum(n) == [t |-> "num", n |-> n]

JStr(str) == [t |-> "str", s |-> str]

JArr(items) == [t |-> "arr", a |-> items]

JObj(map) == [t |-> "obj", m |-> map]

\* the characters of keys and paths in the order of their bytes
ByteOrder ==
  <<" ", "\"", "+", ".", "0", "1", "2", "3", "4", "5", "6", "7", "8", "9", ":",
    "[", "\\", "]", "a", "b", "c", "d", "e", "k", "x", "z">>

ByteOf(c) == CHOOSE i \in 1..Len(ByteOrder) : ByteOrder[i] = c

\* a < b in the order of String: the first byte they differ in decides, a
\* proper prefix comes first
KeyLess(a, b) ==
  The({The({IF diff = {} THEN Len(x) < Len(y)
            ELSE The({ByteOf(x[d]) < ByteOf(y[d]) :
                        d \in {CHOOSE i \in diff : \A j \in diff : i <= j}}) :
              diff \in {{i \in 1..(IF Len(x) < Len(y) THEN Len(x) ELSE Len(y)) :
                           x[i] # y[i]}}}) :
         x \in {a}, y \in {b}})

\* map.keys() sorted by sort_unstable
RECURSIVE SortedKeys(_)
SortedKeys(keys) ==
  The({IF ks = {} THEN <<>>
       ELSE The({<<k>> \o SortedKeys(ks \ {k}) :
                   k \in {CHOOSE x \in ks : \A y \in ks : x = y \/ KeyLess(x, y)}}) :
         ks \in {keys}})

\* the escapes of hash_canonical on the bytes of a string
EscapeByte(c) ==
  CASE c = "\"" -> <<"\\", "\"">>
    [] c = "\\" -> <<"\\", "\\">>
    [] c = "\n" -> <<"\\", "n">>
    [] c = "\r" -> <<"\\", "r">>
    [] c = "\t" -> <<"\\", "t">>
    [] OTHER -> <<c>>

Quoted(str) ==
  The({<<"\"">> \o Concat([i \in 1..Len(t) |-> EscapeByte(t[i])]) \o <<"\"">> : t \in {str}})

\* hash_canonical: the bytes written for a value
RECURSIVE hash_canonical(_)
hash_canonical(value) ==
  The({CASE v.t = "null" -> <<"n", "u", "l", "l">>
         [] v.t = "bool" -> IF v.b THEN <<"t", "r", "u", "e">> ELSE <<"f", "a", "l", "s", "e">>
         [] v.t = "num" -> FormatNat(v.n)
         [] v.t = "str" -> Quoted(v.s)
         [] v.t = "arr" ->
              <<"[">> \o JoinWith([i \in 1..Len(v.a) |-> hash_canonical(v.a[i])], <<",">>)
                \o <<"]">>
         [] v.t = "obj" ->
              The({<<"{">>
                     \o JoinWith([i \in 1..Len(keys) |->
                                    Quoted(keys[i]) \o <<":">> \o hash_canonical(v.m[keys[i]])],
                                 <<",">>)
                     \o <<"}">> :
                     keys \in {SortedKeys(DOMAIN v.m)}}) :
         v \in {value}})

\* compute_canonical_hash
compute_canonical_hash(value) == Xxh32Mod256Hex[hash_canonical(value)]

\* compute_json_anchor
compute_json_anchor(path, value) == path \o <<":">> \o compute_canonical_hash(value)

\* PathSegment::Key(key) and PathSegment::Index(idx)
Key(key) == [kind |-> "Key", key |-> key, idx |-> 0]

Index(idx) == [kind |-> "Index", key |-> <<>>, idx |-> idx]

\* str::parse::<usize>() on any string: an optional "+", then ASCII digits
ParseIndex(str) ==
  The({IF digits = <<>> \/ \E i \in 1..Len(digits) : digits[i] \notin DigitChars
       THEN [ok |-> FALSE, v |-> 0]
       ELSE ParseUsize(digits) :
         digits \in {IF str # <<>> /\ str[1] = "+" THEN DropN(str, 1) ELSE str}})

PathErr == [ok |-> FALSE, segments |-> <<>>]

RECURSIVE PathLoop(_, _, _)

\* one iteration of the while loop of parse_path_segments, at the 0-based
\* offset i < len of tail
PathStep(tail, i, segments) ==
  IF tail[i + 1] = "."
  THEN The({IF n = 0 THEN PathErr
            ELSE PathLoop(tail, i + 1 + n,
                          Append(segments, Key(SubSeq(tail, i + 2, i + 1 + n)))) :
              n \in {LeadingCount(DropN(tail, i + 1),
                                  {c \in {tail[j] : j \in 1..Len(tail)} : c \notin {".", "["}})}})
  ELSE IF tail[i + 1] = "["
  THEN The({The({IF ~idx.ok THEN PathErr
                 ELSE PathLoop(tail,
                               IF i + 1 + n < Len(tail) THEN i + 2 + n ELSE i + 1 + n,
                               Append(segments, Index(idx.v))) :
                   idx \in {ParseIndex(SubSeq(tail, i + 2, i + 1 + n))}}) :
              n \in {LeadingCount(DropN(tail, i + 1),
                                  {c \in {tail[j] : j \in 1..Len(tail)} : c # "]"})}})
  ELSE PathErr

\* the while loop of parse_path_segments from the offset i, segments the
\* segments pushed so far
PathLoop(tail, i, segments) ==
  The({IF j >= Len(t) THEN [ok |-> TRUE, segments |-> segs] ELSE PathStep(t, j, segs) :
         t \in {tail}, j \in {i}, segs \in {segments}})

\* parse_path_segments: Ok(segments) or Err
parse_path_segments(path) ==
  The({IF p = <<"$">> THEN [ok |-> TRUE, segments |-> <<>>]
       ELSE IF ~StartsWith(p, <<"$">>) THEN PathErr
       ELSE PathLoop(DropN(p, 1), 0, <<>>) :
         p \in {path}})

JsonOk(value) == [ok |-> TRUE, value |-> value]

JsonErr == [ok |-> FALSE, value |-> JNull]

\* query_path_segments and query_path_segments_mut from the segment i on:
\* Ok(node) or Err
RECURSIVE QueryFrom(_, _, _)
QueryFrom(current, segments, i) ==
  The({IF i > Len(segments) THEN JsonOk(cur)
       ELSE IF segments[i].kind = "Key"
       THEN IF cur.t # "obj" THEN JsonErr
            ELSE IF segments[i].key \notin DOMAIN cur.m THEN JsonErr
            ELSE QueryFrom(cur.m[segments[i].key], segments, i + 1)
       ELSE IF cur.t # "arr" THEN JsonErr
            ELSE IF segments[i].idx >= Len(cur.a) THEN JsonErr
            ELSE QueryFrom(cur.a[segments[i].idx + 1], segments, i + 1) :
         cur \in {current}})

query_path_segments(ast, segments) ==
  The({QueryFrom(ast, segs, 1) : segs \in {segments}})

\* the write through the reference query_path_segments_mut returned: the
\* value with the node at segments (which exists) replaced by node
RECURSIVE StoreFrom(_, _, _, _)
StoreFrom(current, segments, i, node) ==
  The({IF i > Len(segments) THEN node
       ELSE IF segments[i].kind = "Key"
       THEN JObj([cur.m EXCEPT ![segments[i].key] =
                    StoreFrom(cur.m[segments[i].key], segments, i + 1, node)])
       ELSE JArr([cur.a EXCEPT ![segments[i].idx + 1] =
                    StoreFrom(cur.a[segments[i].idx + 1], segments, i + 1, node)]) :
         cur \in {current}})

\* Map::insert(key, value)
MapInsert(map, key, value) ==
  [k \in DOMAIN map \cup {key} |-> IF k = key THEN value ELSE map[k]]

\* Map::remove(key)
MapRemove(map, key) == [k \in DOMAIN map \ {key} |-> map[k]]

\* the match on the last segment in set_path and delete_path, parent the
\* node the parent segments lead to; value is Some(v) for set_path, None for
\* delete_path
StoreLast(parent, last, value) ==
  IF last.kind = "Key"
  THEN IF parent.t # "obj" THEN JsonErr
       ELSE JsonOk(JObj(IF value = None THEN MapRemove(parent.m, last.key)
                        ELSE MapInsert(parent.m, last.key, value[1])))
  ELSE IF parent.t # "arr" THEN JsonErr
       ELSE IF last.idx >= Len(parent.a) THEN JsonErr
       ELSE JsonOk(JArr(SpliceSeq(parent.a, last.idx, 1, value)))

\* set_path and delete_path below the root: the new AST or Err
StoreAtParent(ast, segments, value) ==
  The({IF ~parent.ok THEN JsonErr
       ELSE The({IF ~stored.ok THEN JsonErr
                 ELSE JsonOk(StoreFrom(ast, SubSeq(segments, 1, Len(segments) - 1), 1,
                                       stored.value)) :
                   stored \in {StoreLast(parent.value, segments[Len(segments)], value)}}) :
         parent \in {query_path_segments(ast, SubSeq(segments, 1, Len(segments) - 1))}})

\* set_path: the new AST or Err
set_path(ast, path, value) ==
  The({IF ~sg.ok THEN JsonErr
       ELSE IF sg.segments = <<>> THEN JsonOk(value)
       ELSE StoreAtParent(ast, sg.segments, Some(value)) :
         sg \in {parse_path_segments(path)}})

\* delete_path: the new AST or Err
delete_path(ast, path) ==
  The({IF ~sg.ok THEN JsonErr
       ELSE IF sg.segments = <<>> THEN JsonErr
       ELSE StoreAtParent(ast, sg.segments, None) :
         sg \in {parse_path_segments(path)}})

\* the insertion of insert_at_path into the node target
InsertInto(target, key, index, value) ==
  IF key # None
  THEN IF target.t # "obj" THEN JsonErr
       ELSE JsonOk(JObj(MapInsert(target.m, key[1], value)))
  ELSE IF target.t # "arr" THEN JsonErr
       ELSE IF index = None THEN JsonOk(JArr(Append(target.a, value)))
       ELSE IF index[1] <= Len(target.a)
       THEN JsonOk(JArr(SpliceSeq(target.a, index[1], 0, <<value>>)))
       ELSE JsonErr

\* insert_at_path: the new AST or Err
insert_at_path(ast, path, key, index, value) ==
  The({IF ~sg.ok THEN JsonErr
       ELSE The({IF ~target.ok THEN JsonErr
                 ELSE The({IF ~put.ok THEN JsonErr
                           ELSE JsonOk(StoreFrom(ast, sg.segments, 1, put.value)) :
                             put \in {InsertInto(target.value, key, index, value)}}) :
                   target \in {query_path_segments(ast, sg.segments)}}) :
         sg \in {parse_path_segments(path)}})

\* str::rfind(':'): the 0-based offset of the last colon, -1 for None
RFindColon(str) ==
  The({IF hits = {} THEN -1 ELSE (CHOOSE i \in hits : \A j \in hits : i >= j) - 1 :
         hits \in {{i \in 1..Len(str) : str[i] = ":"}}})

MaxHashLen == 16

\* parse_anchor: Ok((path, hash)) or Err
parse_anchor(anchor) ==
  The({The({IF colon_pos < 0 THEN [ok |-> FALSE, path |-> <<>>, hash |-> <<>>]
            ELSE The({IF Len(hash) >= 1 /\ Len(hash) <= MaxHashLen
                         /\ \A i \in 1..Len(hash) : hash[i] \in AlnumChars
                      THEN [ok |-> TRUE, path |-> TakeN(a, colon_pos), hash |-> hash]
                      ELSE [ok |-> FALSE, path |-> <<>>, hash |-> <<>>] :
                        hash \in {DropN(a, colon_pos + 1)}}) :
              colon_pos \in {RFindColon(a)}}) :
         a \in {anchor}})

\* the anchors render_value prints for the children of value, in the order of
\* the output; loc is the path of value as segments, which the code does not
\* keep: it names the node each anchor is printed for
RECURSIVE RenderAnchors(_, _, _)
RenderAnchors(value, current_path, loc) ==
  The({IF v.t = "obj"
       THEN The({Concat([i \in 1..Len(keys) |->
                   The({<<[anchor |-> compute_json_anchor(child_path, v.m[keys[i]]),
                           loc |-> Append(loc, Key(keys[i]))]>>
                          \o RenderAnchors(v.m[keys[i]], child_path, Append(loc, Key(keys[i]))) :
                          child_path \in {cp \o <<".">> \o keys[i]}})]) :
                   keys \in {SortedKeys(DOMAIN v.m)}})
       ELSE IF v.t = "arr"
       THEN Concat([i \in 1..Len(v.a) |->
              The({<<[anchor |-> compute_json_anchor(child_path, v.a[i]),
                      loc |-> Append(loc, Index(i - 1))]>>
                     \o RenderAnchors(v.a[i], child_path, Append(loc, Index(i - 1))) :
                     child_path \in {cp \o <<"[">> \o FormatNat(i - 1) \o <<"]">>}})])
       ELSE <<>> :
         v \in {value}, cp \in {current_path}})

\* format_json_with_anchors_inner(buf, ast, "$", 0): the anchor of the root,
\* then the anchors of render_value
AnchorListing(ast) ==
  <<[anchor |-> compute_json_anchor(<<"$">>, ast), loc |-> <<>>]>>
    \o RenderAnchors(ast, <<"$">>, <<>>)

\* format_json_anchors: the PATH:HASH anchors of the comment lines of the
\* output, in order (the lines that print the values are left out)
format_json_anchors(ast) ==
  The({[i \in 1..Len(l) |-> l[i].anchor] : l \in {AnchorListing(ast)}})

\* JsonEdit: SetPath, InsertAtPath and DeletePath as one record
SetPath(anchor, value) ==
  [op |-> "set_path", anchor |-> anchor, key |-> None, index |-> None, value |-> value]

InsertAtPath(anchor, key, index, value) ==
  [op |-> "insert_at_path", anchor |-> anchor, key |-> key, index |-> index, value |-> value]

DeletePath(anchor) ==
  [op |-> "delete_path", anchor |-> anchor, key |-> None, index |-> None, value |-> JNull]

\* Result<(), JsonError> of apply_json_edits: kind is "none" before the
\* return, then "ok", "mismatch" (HashMismatch) or "other" (Other)
JsonResult(kind, path, expected, actual) ==
  [kind |-> kind, path |-> path, expected |-> expected, actual |-> actual]

JsonOther == JsonResult("other", <<>>, <<>>, <<>>)

\* one iteration of the first pass of apply_json_edits: None when the anchor
\* of the edit is valid, or Some(error)
ValidateJsonEdit(ast, edit) ==
  The({IF ~pa.ok THEN Some(JsonOther)
       ELSE The({IF ~sg.ok THEN Some(JsonOther)
                 ELSE The({IF ~cur.ok THEN Some(JsonOther)
                           ELSE The({IF current_hash # pa.hash
                                     THEN Some(JsonResult("mismatch", pa.path, pa.hash,
                                                          current_hash))
                                     ELSE None :
                                       current_hash \in {compute_canonical_hash(cur.value)}}) :
                             cur \in {query_path_segments(ast, sg.segments)}}) :
                   sg \in {parse_path_segments(pa.path)}}) :
         pa \in {parse_anchor(edit.anchor)}})

\* one iteration of the second pass of apply_json_edits on the clone: the
\* new clone or Err
ApplyJsonEdit(cloned, edit) ==
  The({IF ~pa.ok THEN JsonErr
       ELSE IF edit.op = "set_path" THEN set_path(cloned, pa.path, edit.value)
       ELSE IF edit.op = "insert_at_path"
       THEN insert_at_path(cloned, pa.path, edit.key, edit.index, edit.value)
       ELSE delete_path(cloned, pa.path) :
         pa \in {parse_anchor(edit.anchor)}})

(***************************************************************************)
(* The inputs of the apply command: target files and edit batches          *)
(***************************************************************************)
MaxLines == 3

MaxEdits == 2

MaxAttempts == 2

\* the lines the target files are cut from: every file is a window of
\* 1..MaxLines consecutive lines.  "x =" ends in a continuation token, "y"
\* occurs twice, so the windows hold files with unique and with duplicate hashes
Corpus == << <<"x", " ", "=">>, <<"y">>, <<"k">>, <<"y">>, <<"x", " ", "=">> >>

FileSet ==
  {SubSeq(Corpus, w[1], w[1] + w[2] - 1) :
     w \in {v \in (1..Len(Corpus)) \X (1..MaxLines) : v[1] + v[2] - 1 <= Len(Corpus)}}

\* the bytes of a file on disk: its lines, each ended by a line feed
FileBytes(lines) == JoinWith(lines, <<LF>>) \o <<LF>>

\* a hash no line of the corpus has
StaleHash == <<"0", "0">>

HashPool(lines) ==
  {compute_line_hash(n, lines[n]) : n \in 1..Len(lines)} \cup {StaleHash}

\* anchors LINE:HASH on the lines of the file
CoreAnchors(lines) ==
  {FormatLoc(l, h) : l \in 1..Len(lines), h \in HashPool(lines)}

\* anchors beside the file, in upper case, in the display form, malformed,
\* with a line number beyond usize and with a non-ASCII digit
EdgeAnchors(lines) ==
  {FormatLoc(l, h) : l \in {0, Len(lines) + 1}, h \in HashPool(lines)}
  \cup {FormatLoc(1, <<"8", "C">>),
        <<">", ">", ">", " ">> \o FormatLoc(1, compute_line_hash(1, lines[1]))
           \o <<"|">> \o lines[1],
        <<"a", "b", "c">>,
        [i \in 1..20 |-> "9"] \o <<":">> \o StaleHash,
        <<"U+0663", ":">> \o StaleHash}

TextZ == <<"z">>

TextW == <<"w">>

TextMerged == <<"x", "=", "y">>

TextTwo == <<"z", LF, "w">>

\* two lines, the first of which repeats the line "y" of the corpus
TextEcho == <<"y", LF, "w">>

TextV == <<"v">>

\* the anchors that name a line of the file with the hash of that line
ValidAnchors(lines) ==
  {FormatLoc(l, compute_line_hash(l, lines[l])) : l \in 1..Len(lines)}

\* the edits batches of every length are built from: edits on the lines of
\* the file and one edit on a line beyond its end
CoreEdits(lines) ==
  {SetLine(a, TextZ) : a \in CoreAnchors(lines)}
  \cup {InsertAfter(a, Some(TextW), None) : a \in CoreAnchors(lines)}
  \cup {ReplaceLines(FormatLoc(a, compute_line_hash(a, lines[a])),
                     Some(FormatLoc(b, compute_line_hash(b, lines[b]))), Some(TextTwo)) :
          a \in 1..Len(lines), b \in 1..Len(lines)}
  \cup {SetLine(FormatLoc(Len(lines) + 1, StaleHash), TextZ)}

\* the edits that occur in batches of one edit only
EdgeEdits(lines) ==
  {SetLine(a, t) : a \in CoreAnchors(lines), t \in {TextMerged, TextTwo, <<"y">>, <<>>}}
  \cup {SetLine(a, TextZ) : a \in EdgeAnchors(lines)}
  \cup {InsertAfter(a, t, None) : a \in EdgeAnchors(lines), t \in {Some(TextW)}}
  \cup {InsertAfter(a, None, c) : a \in CoreAnchors(lines), c \in {None, Some(TextW)}}
  \cup {ReplaceLines(a, b, Some(TextZ)) :
          a \in CoreAnchors(lines),
          b \in {None} \cup {Some(x) : x \in CoreAnchors(lines)}}
  \cup {ReplaceLines(a, Some(b), None) :
          a \in {FormatLoc(1, compute_line_hash(1, lines[1]))},
          b \in EdgeAnchors(lines)}
  \cup {ReplaceLines(a, Some(b), t) :
          a \in ValidAnchors(lines), b \in ValidAnchors(lines), t \in {None, Some(<<>>)}}
  \cup {InsertAfter(a, Some(t), None) : a \in CoreAnchors(lines), t \in {TextTwo, TextEcho}}
  \cup {InsertAfter(a, Some(<<>>), c) : a \in CoreAnchors(lines), c \in {None, Some(TextW)}}
  \cup {InsertAfter(a, Some(<<"y">>), None) : a \in ValidAnchors(lines)}

\* two SetLine edits on the same line with different replacements
SetLinePairs(lines) ==
  {<<SetLine(a, t[1]), SetLine(a, t[2])>> :
     a \in ValidAnchors(lines),
     t \in {u \in {TextZ, TextW, TextTwo, <<"y">>} \X {TextZ, TextW, TextTwo, <<"y">>} :
              u[1] # u[2]}}

\* a replacement of one line by two lines, by one line or by none and an
\* InsertAfter on the same line, in both orders
ReplaceThenInsert(lines) ==
  UNION {{<<SetLine(a, t), InsertAfter(a, Some(TextV), None)>>,
          <<InsertAfter(a, Some(TextV), None), SetLine(a, t)>>} :
           a \in ValidAnchors(lines), t \in {TextTwo, TextZ, <<>>}}

\* a SetLine whose replacement holds the lines "x =" and "y" merged and a
\* SetLine on another line, in both orders
MergePairs(lines) ==
  UNION {{<<SetLine(p[1], TextMerged), SetLine(p[2], TextZ)>>,
          <<SetLine(p[2], TextZ), SetLine(p[1], TextMerged)>>} :
           p \in {q \in ValidAnchors(lines) \X ValidAnchors(lines) : q[1] # q[2]}}

ReplaceEdits ==
  {Replace(<<"y">>, TextZ), Replace(<<"k">>, <<"y">>), Replace(<<"q">>, TextZ),
   Replace(<<>>, TextZ)}

\* an old_text that overlaps itself: in "y\ny\ny" it occurs at two offsets
ReplaceOverlap == Replace(<<"y", LF, "y">>, TextZ)

\* two replace edits, the second on the content the first produced
ReplacePairs ==
  {<<r1, r2>> : r1 \in ReplaceEdits, r2 \in ReplaceEdits \cup {ReplaceOverlap}}

SeqsUpTo(S, n) == UNION {[1..m -> S] : m \in 0..n}

\* the batches of a file: up to MaxEdits core edits, or one edge edit, each
\* alone or followed by a replace edit; two SetLine edits on one line; two
\* replace edits
Batches(lines) ==
  LET anchored == SeqsUpTo(CoreEdits(lines), MaxEdits)
                    \cup {<<e>> : e \in EdgeEdits(lines)}
      short == SeqsUpTo(CoreEdits(lines), 1)
  IN anchored \cup {b \o <<r>> : b \in short, r \in ReplaceEdits}
       \cup SetLinePairs(lines) \cup ReplacePairs
       \cup ReplaceThenInsert(lines) \cup MergePairs(lines)

\* the code points the hyphen normalization is specified for
Hyphens ==
  {"U+2010", "U+2011", "U+2012", "U+2013", "U+2014", "U+2015", "U+2212", "U+FE63", "U+FF0D"}

\* a file whose first line is the hyphen c alone, and the edits that replace
\* that line, or the range of the whole file, by itself or by another text
HyphenInputs ==
  UNION {UNION {{[disk |-> Some(FileBytes(f)), params |-> [valid |-> TRUE, edits |-> <<e>>]] :
                   e \in {SetLine(FormatLoc(1, compute_line_hash(1, <<c>>)), t) :
                            t \in {<<c>>, <<c, "z">>}}
                        \cup {ReplaceLines(FormatLoc(1, compute_line_hash(1, <<c>>)),
                                           Some(FormatLoc(Len(f), compute_line_hash(Len(f), f[Len(f)]))),
                                           Some(t)) :
                                t \in {JoinWith(f, <<LF>>), <<c, "z">>}}} :
                  f \in {<< <<c>> >>, << <<c>>, <<"k">> >>}} :
           c \in Hyphens}

(***************************************************************************)
(* The inputs of the json-apply command: documents and edit batches        *)
(***************************************************************************)
MaxJsonEdits == 2

\* {"a":{"b":1},"c":[1,2]}
DocNested ==
  JObj((<<"a">> :> JObj(<<"b">> :> JNum(1))) @@ (<<"c">> :> JArr(<<JNum(1), JNum(2)>>)))

\* {"a.b":1,"c d":2,"e[0]":3}: keys with '.', ' ' and '['
DocSpecialKeys ==
  JObj((<<"a", ".", "b">> :> JNum(1)) @@ (<<"c", " ", "d">> :> JNum(2))
         @@ (<<"e", "[", "0", "]">> :> JNum(3)))

\* {"a":{"b":1},"a.b":2}: two nodes that are printed with the path $.a.b
DocSamePath ==
  JObj((<<"a">> :> JObj(<<"b">> :> JNum(1))) @@ (<<"a", ".", "b">> :> JNum(2)))

DocSet == {DocNested, DocSpecialKeys, DocSamePath}

NewValue == JNum(7)

\* the path of an anchor the formatter printed
PathOf(anchor) == parse_anchor(anchor).path

\* the anchors json-read printed for the document
PrintedAnchors(doc) ==
  The({{l[i] : i \in 1..Len(l)} : l \in {format_json_anchors(doc)}})

\* the printed anchors and the same paths with a hash no node has
JsonCoreAnchors(doc) ==
  The({printed \cup {PathOf(a) \o <<":">> \o StaleHash : a \in printed} :
         printed \in {PrintedAnchors(doc)}})

\* malformed anchors, paths that lead nowhere, the bracketed-quoted form of
\* a key and a hash in upper case
JsonEdgeAnchors ==
  {<<"a", "b", "c">>,
   <<"$", ".", "a", ":">>,
   <<"$", ".", "a", ":", "0", "+", "0">>,
   <<"$", ".", "a", ":">> \o [i \in 1..(MaxHashLen + 1) |-> "0"],
   <<"a", ":", "0", "0">>,
   <<"$", "x", ":", "0", "0">>,
   <<"$", ".", ".", "a", ":", "0", "0">>,
   <<"$", ".", "z", "z", ":", "0", "0">>,
   <<"$", ".", "c", "[", "x", "]", ":", "0", "0">>,
   <<"$", ".", "c", "[", "5", "]", ":", "0", "0">>,
   <<"$", ".", "a", "[", "0", "]", ":", "0", "0">>,
   <<"$", ".", "c", ".", "a", ":", "0", "0">>,
   <<"$", "[", "\"", "a", ".", "b", "\"", "]", ":", "b", "2">>,
   <<"$", ".", "a", ".", "b", ":", "B", "2">>}

\* the edits batches of every length are built from
JsonCoreEdits(doc) ==
  The({{SetPath(a, NewValue) : a \in anchors}
         \cup {DeletePath(a) : a \in anchors}
         \cup {InsertAtPath(a, k[1], k[2], NewValue) :
                 a \in PrintedAnchors(doc),
                 k \in {<<Some(<<"k">>), None>>, <<Some(<<"b">>), Some(0)>>,
                        <<None, Some(0)>>, <<None, Some(2)>>, <<None, Some(9)>>,
                        <<None, None>>}} :
         anchors \in {JsonCoreAnchors(doc)}})

\* the edits that occur in batches of one edit only
JsonEdgeEdits ==
  {SetPath(a, NewValue) : a \in JsonEdgeAnchors}
  \cup {DeletePath(a) : a \in JsonEdgeAnchors}

JsonBatches(doc) ==
  SeqsUpTo(JsonCoreEdits(doc), MaxJsonEdits) \cup {<<e>> : e \in JsonEdgeEdits}

\* the content of a JSON file on disk: the value it denotes, or text that is
\* no JSON
JsonFile(value) == [valid |-> TRUE, value |-> value]

NotJson == [valid |-> FALSE, value |-> JNull]

(***************************************************************************)
(* The state of one run of the command line                                *)
(***************************************************************************)
VARIABLES
  cmd,                       \* the subcommand: "apply" or "json-apply"
  overflow_checks,           \* the build: arithmetic overflow panics (TRUE) or wraps
  params,                    \* the batch read from stdin: [valid, edits]
  disk,                      \* the bytes of the target file, None when it is missing
  disk0,                     \* the target file when the command started
  pc,                        \* the position of the run
  attempt,                   \* how often the batch has been submitted
  content,                   \* apply_hashline_edits: the content argument
  file_lines,                \* apply_hashline_edits: the owned vector of lines
  original_file_lines,
  parsed,                    \* the parsed edits, in the order the loops visit them
  next_edit,                 \* the index of the next edit of the running loop
  mismatches,
  explicitly_touched_lines,
  first_changed_line,
  noop_edits,
  anchor_result,             \* what apply_hashline_edits returned
  final_content,
  ast,                       \* json-apply: the AST main holds, None before it is parsed
  cloned_ast,                \* apply_json_edits: the clone, None before it is made
  json_result,               \* what apply_json_edits returned
  writes,                    \* how often the target file has been written
  stdout,                    \* the lines the hash command printed on stdout
  stderr,                    \* the lines of the mismatch report printed on stderr
  exit_code                  \* the exit status, Running until the process ends

textVars ==
  <<content, file_lines, original_file_lines, parsed, next_edit, mismatches,
    explicitly_touched_lines, first_changed_line, noop_edits, anchor_result, final_content>>

jsonVars == <<ast, cloned_ast, json_result>>

vars ==
  <<cmd, overflow_checks, params, disk, disk0, pc, attempt, content, file_lines,
    original_file_lines, parsed, next_edit, mismatches, explicitly_touched_lines,
    first_changed_line, noop_edits, anchor_result, final_content, ast, cloned_ast,
    json_result, writes, stdout, stderr, exit_code>>

Running == -1

PanicExit == 101

\* Result<ApplyResult, Box<dyn Error>>: kind is "none" before the return, then
\* "ok", "mismatch" (HashlineMismatchError) or "err" (any other error)
EngineResult(kind, text, first, warnings, noops, mism, lines) ==
  [kind |-> kind, content |-> text, first_changed_line |-> first, warnings |-> warnings,
   noop_edits |-> noops, mismatches |-> mism, file_lines |-> lines]

NoResult == EngineResult("none", <<>>, None, <<>>, <<>>, <<>>, <<>>)

\* ErrResult had it been a HashlineMismatchError
ErrResultAsMismatch == EngineResult("mismatch", <<>>, None, <<>>, <<>>, <<>>, <<>>)

ErrResult == EngineResult("err", <<>>, None, <<>>, <<>>, <<>>, <<>>)

\* the locals of apply_hashline_edits before the call
TextInit ==
  /\ content = <<>>
  /\ file_lines = <<>>
  /\ original_file_lines = <<>>
  /\ parsed = <<>>
  /\ next_edit = 0
  /\ mismatches = <<>>
  /\ explicitly_touched_lines = {}
  /\ first_changed_line = None
  /\ noop_edits = <<>>
  /\ anchor_result = NoResult
  /\ final_content = <<>>

\* the locals of Commands::JsonApply and apply_json_edits before the call
JsonInit ==
  /\ ast = None
  /\ cloned_ast = None
  /\ json_result = JsonResult("none", <<>>, <<>>, <<>>)

\* exit_with(code, ...): the process ends
ExitWith(code) ==
  /\ pc' = "exited"
  /\ exit_code' = code

\* params.edits filtered into anchor_edits and replace_edits
anchor_edits == SelectSeq(params.edits, LAMBDA e : e.op # "replace")

replace_edits == SelectSeq(params.edits, LAMBDA e : e.op = "replace")

(***************************************************************************)
(* main.rs: Commands::Apply, with the steps of apply_hashline_edits        *)
(***************************************************************************)
\* main.rs 83-124: the batch is read and deserialized
ApplyParseParams ==
  /\ cmd = "apply"
  /\ pc = "start"
  /\ IF params.valid
     THEN pc' = "read_target" /\ UNCHANGED exit_code
     ELSE ExitWith(2)
  /\ UNCHANGED <<jsonVars, cmd, stdout, stderr, overflow_checks, params, disk, disk0, attempt, textVars, writes>>

\* main.rs 126-138: read_normalized of the target file
ApplyReadTarget ==
  /\ cmd = "apply"
  /\ pc = "read_target"
  /\ IF disk = None
     THEN ExitWith(2) /\ UNCHANGED content
     ELSE /\ content' = read_normalized(disk[1])
          /\ pc' = "engine"
          /\ UNCHANGED exit_code
  /\ UNCHANGED <<jsonVars, cmd, stdout, stderr, overflow_checks, params, disk, disk0, attempt, file_lines,
                 original_file_lines, parsed, next_edit, mismatches,
                 explicitly_touched_lines, first_changed_line, noop_edits,
                 anchor_result, final_content, writes>>

\* edit.rs 179-277: the early return on an empty batch, the split of the
\* content, the parse of every edit, the touched lines
EngineStart ==
  /\ cmd = "apply"
  /\ pc = "engine"
  /\ LET lines == SplitOn(content, LF)
         r == ParseAll(anchor_edits, 1)
     IN IF anchor_edits = <<>>
        THEN /\ anchor_result' = EngineResult("ok", content, None, <<>>, <<>>, <<>>, <<>>)
             /\ pc' = "handle"
             /\ UNCHANGED <<file_lines, original_file_lines, parsed, next_edit,
                            explicitly_touched_lines, exit_code>>
        ELSE /\ file_lines' = lines
             /\ original_file_lines' = lines
             /\ IF r.kind = "panic"
                THEN /\ ExitWith(PanicExit)
                     /\ UNCHANGED <<parsed, next_edit, explicitly_touched_lines, anchor_result>>
                ELSE IF r.kind = "err"
                THEN /\ anchor_result' = ErrResult
                     /\ pc' = "handle"
                     /\ UNCHANGED <<parsed, next_edit, explicitly_touched_lines, exit_code>>
                ELSE /\ parsed' = r.parsed
                     /\ explicitly_touched_lines' = collect_touched(r.parsed)
                     /\ next_edit' = 1
                     /\ pc' = "validate"
                     /\ UNCHANGED <<anchor_result, exit_code>>
  /\ UNCHANGED <<jsonVars, cmd, stdout, stderr, overflow_checks, params, disk, disk0, attempt, content, mismatches,
                 first_changed_line, noop_edits, final_content, writes>>

\* edit.rs 279-396: one iteration of the validation loop
ValidateEdit ==
  /\ cmd = "apply"
  /\ pc = "validate"
  /\ next_edit <= Len(parsed)
  /\ LET r == ValidateOne(parsed[next_edit], file_lines,
                          unique_line_by_hash(file_lines), overflow_checks)
     IN IF r.kind = "panic"
        THEN /\ ExitWith(PanicExit)
             /\ UNCHANGED <<parsed, next_edit, mismatches, anchor_result>>
        ELSE IF r.kind = "err"
        THEN /\ anchor_result' = ErrResult
             /\ pc' = "handle"
             /\ UNCHANGED <<parsed, next_edit, mismatches, exit_code>>
        ELSE /\ parsed' = [parsed EXCEPT ![next_edit] = r.p]
             /\ mismatches' = mismatches \o r.pushed
             /\ next_edit' = next_edit + 1
             /\ UNCHANGED <<pc, anchor_result, exit_code>>
  /\ UNCHANGED <<jsonVars, cmd, stdout, stderr, overflow_checks, params, disk, disk0, attempt, content, file_lines,
                 original_file_lines, explicitly_touched_lines, first_changed_line,
                 noop_edits, final_content, writes>>

\* ValidateFinish had it not returned on the recorded mismatches
ValidateFinishIgnoringMismatches ==
  /\ cmd = "apply"
  /\ pc = "validate"
  /\ next_edit > Len(parsed)
  /\ explicitly_touched_lines' = collect_touched(parsed)
  /\ parsed' = SortBottomUp(Dedup(parsed))
  /\ next_edit' = 1
  /\ pc' = "splice"
  /\ UNCHANGED <<jsonVars, cmd, stdout, stderr, overflow_checks, params, disk, disk0, attempt, content,
                 file_lines, original_file_lines, mismatches, first_changed_line,
                 noop_edits, anchor_result, final_content, writes, exit_code>>

\* edit.rs 398-459: the mismatch return, then the touched lines, the
\* deduplication and the bottom-up sort
ValidateFinish ==
  /\ cmd = "apply"
  /\ pc = "validate"
  /\ next_edit > Len(parsed)
  /\ IF mismatches # <<>>
     THEN /\ anchor_result' = EngineResult("mismatch", <<>>, None, <<>>, <<>>,
                                           mismatches, file_lines)
          /\ pc' = "handle"
          /\ UNCHANGED <<parsed, next_edit, explicitly_touched_lines>>
     ELSE /\ explicitly_touched_lines' = collect_touched(parsed)
          /\ parsed' = SortBottomUp(Dedup(parsed))
          /\ next_edit' = 1
          /\ pc' = "splice"
          /\ UNCHANGED anchor_result
  /\ UNCHANGED <<jsonVars, cmd, stdout, stderr, overflow_checks, params, disk, disk0, attempt, content, file_lines,
                 original_file_lines, mismatches, first_changed_line, noop_edits,
                 final_content, writes, exit_code>>

\* edit.rs 461-584: one iteration of the splice loop
SpliceEdit ==
  /\ cmd = "apply"
  /\ pc = "splice"
  /\ next_edit <= Len(parsed)
  /\ LET st == SpliceOne(SpliceState(FALSE, file_lines, first_changed_line, noop_edits),
                         parsed[next_edit], original_file_lines, explicitly_touched_lines)
     IN IF st.panic
        THEN /\ ExitWith(PanicExit)
             /\ UNCHANGED <<file_lines, first_changed_line, noop_edits, next_edit>>
        ELSE /\ file_lines' = st.file_lines
             /\ first_changed_line' = st.first_changed_line
             /\ noop_edits' = st.noop_edits
             /\ next_edit' = next_edit + 1
             /\ UNCHANGED <<pc, exit_code>>
  /\ UNCHANGED <<jsonVars, cmd, stdout, stderr, overflow_checks, params, disk, disk0, attempt, content,
                 original_file_lines, parsed, mismatches, explicitly_touched_lines,
                 anchor_result, final_content, writes>>

\* edit.rs 586-608: the warnings and the Ok return
EngineFinish ==
  /\ cmd = "apply"
  /\ pc = "splice"
  /\ next_edit > Len(parsed)
  /\ anchor_result' = EngineResult("ok", JoinWith(file_lines, <<LF>>), first_changed_line,
                                   Warnings(file_lines, original_file_lines,
                                            Len(anchor_edits)),
                                   noop_edits, <<>>, <<>>)
  /\ pc' = "handle"
  /\ UNCHANGED <<jsonVars, cmd, stdout, stderr, overflow_checks, params, disk, disk0, attempt, content, file_lines,
                 original_file_lines, parsed, next_edit, mismatches,
                 explicitly_touched_lines, first_changed_line, noop_edits,
                 final_content, writes, exit_code>>

\* main.rs 154-179: the match on the result of apply_hashline_edits
ApplyHandleResult ==
  /\ cmd = "apply"
  /\ pc = "handle"
  /\ IF anchor_result.kind = "mismatch"
     THEN /\ stderr' = format_message(anchor_result.mismatches, anchor_result.file_lines)
          /\ ExitWith(1)
          /\ UNCHANGED final_content
     ELSE IF anchor_result.kind = "err"
     THEN ExitWith(2) /\ UNCHANGED <<final_content, stderr>>
     ELSE /\ final_content' = anchor_result.content
          /\ pc' = "replace"
          /\ UNCHANGED <<exit_code, stderr>>
  /\ UNCHANGED <<jsonVars, cmd, stdout, overflow_checks, params, disk, disk0, attempt, content, file_lines,
                 original_file_lines, parsed, next_edit, mismatches,
                 explicitly_touched_lines, first_changed_line, noop_edits,
                 anchor_result, writes>>

\* ApplyReplace had it gone on to the write after a failed replace edit
ApplyReplaceThenWrite ==
  /\ cmd = "apply"
  /\ pc = "replace"
  /\ \E r \in {apply_replace_edits(final_content, replace_edits)} :
       final_content' = IF replace_edits # <<>> /\ r.kind = "ok" THEN r.content
                        ELSE final_content
  /\ pc' = "write"
  /\ UNCHANGED <<jsonVars, cmd, stdout, stderr, overflow_checks, params, disk, disk0, attempt, content,
                 file_lines, original_file_lines, parsed, next_edit, mismatches,
                 explicitly_touched_lines, first_changed_line, noop_edits,
                 anchor_result, writes, exit_code>>

\* main.rs 180-200: the replace edits run on the result of the anchored edits
ApplyReplace ==
  /\ cmd = "apply"
  /\ pc = "replace"
  /\ LET r == apply_replace_edits(final_content, replace_edits)
     IN IF replace_edits = <<>>
        THEN pc' = "write" /\ UNCHANGED <<final_content, exit_code>>
        ELSE IF r.kind = "err"
        THEN ExitWith(2) /\ UNCHANGED final_content
        ELSE /\ final_content' = r.content
             /\ pc' = "write"
             /\ UNCHANGED exit_code
  /\ UNCHANGED <<jsonVars, cmd, stdout, stderr, overflow_checks, params, disk, disk0, attempt, content, file_lines,
                 original_file_lines, parsed, next_edit, mismatches,
                 explicitly_touched_lines, first_changed_line, noop_edits,
                 anchor_result, writes>>

\* what std::fs::write leaves of a file: the new content, or on an error the
\* old file (it could not be opened) or the file truncated by the open
WriteOutcomes(old, written, truncated) ==
  {[ok |-> TRUE, disk |-> Some(written)], [ok |-> FALSE, disk |-> old],
   [ok |-> FALSE, disk |-> Some(truncated)]}

\* main.rs 202-250: the file is written, the report printed, the run ends
ApplyWrite ==
  /\ cmd = "apply"
  /\ pc = "write"
  /\ \E w \in WriteOutcomes(disk, final_content \o <<LF>>, <<>>) :
       /\ disk' = w.disk
       /\ ExitWith(IF w.ok THEN 0 ELSE 2)
  /\ writes' = writes + 1
  /\ UNCHANGED <<jsonVars, cmd, stdout, stderr, overflow_checks, params, disk0, attempt, textVars>>

\* the anchor an agent submits again: its entry in the refresh map if it has one
Refreshed(anchor, map) ==
  LET r == parse_line_ref(anchor)
  IN IF r.kind = "ok" /\ FormatLoc(r.line, r.hash) \in DOMAIN map
     THEN map[FormatLoc(r.line, r.hash)]
     ELSE anchor

RefreshEdit(e, map) ==
  IF e.op = "replace" THEN e
  ELSE [e EXCEPT !.anchor = Refreshed(e.anchor, map),
                 !.end_anchor = IF e.end_anchor = None THEN None
                                ELSE Some(Refreshed(e.end_anchor[1], map))]

\* after exit code 1 the same batch is submitted again on the unchanged file,
\* every stale anchor replaced by its entry in remaps()
Retry ==
  /\ cmd = "apply"
  /\ pc = "exited"
  /\ exit_code = 1
  /\ attempt < MaxAttempts
  /\ params' = [params EXCEPT !.edits =
                  [i \in 1..Len(params.edits) |->
                     RefreshEdit(params.edits[i],
                                 remaps(anchor_result.mismatches, anchor_result.file_lines))]]
  /\ attempt' = attempt + 1
  /\ pc' = "start"
  /\ exit_code' = Running
  /\ content' = <<>>
  /\ file_lines' = <<>>
  /\ original_file_lines' = <<>>
  /\ parsed' = <<>>
  /\ next_edit' = 0
  /\ mismatches' = <<>>
  /\ explicitly_touched_lines' = {}
  /\ first_changed_line' = None
  /\ noop_edits' = <<>>
  /\ anchor_result' = NoResult
  /\ final_content' = <<>>
  /\ stderr' = <<>>
  /\ UNCHANGED <<jsonVars, cmd, stdout, overflow_checks, disk, disk0, writes>>

\* the target file and the batch an apply run starts with
ApplyInputs ==
  {[disk |-> Some(FileBytes(f)), params |-> [valid |-> TRUE, edits |-> b]] :
     f \in FileSet, b \in {<<>>}}
  \cup UNION {{[disk |-> Some(FileBytes(f)), params |-> [valid |-> TRUE, edits |-> b]] :
                 b \in Batches(f)} : f \in FileSet}
  \cup UNION {{[disk |-> Some(JoinWith(f, <<"\r", LF>>) \o <<"\r", LF>>),
                params |-> [valid |-> TRUE, edits |-> b]] :
                 b \in SeqsUpTo(CoreEdits(f), 1)} : f \in FileSet}
  \cup {[disk |-> Some(FileBytes(f)), params |-> [valid |-> FALSE, edits |-> <<>>]] :
          f \in FileSet}
  \cup {[disk |-> None, params |-> [valid |-> TRUE, edits |-> <<>>]]}
  \cup HyphenInputs

(***************************************************************************)
(* main.rs: Commands::JsonApply, with the steps of apply_json_edits        *)
(***************************************************************************)
\* main.rs 289-330: the batch is read and deserialized
JsonParseParams ==
  /\ cmd = "json-apply"
  /\ pc = "start"
  /\ IF params.valid
     THEN pc' = "read_target" /\ UNCHANGED exit_code
     ELSE ExitWith(2)
  /\ UNCHANGED <<jsonVars, cmd, stdout, stderr, overflow_checks, params, disk, disk0, attempt, textVars,
                 writes>>

\* main.rs 333-345: parse_json_ast of the target file
JsonReadTarget ==
  /\ cmd = "json-apply"
  /\ pc = "read_target"
  /\ IF disk = None \/ ~disk[1].valid
     THEN ExitWith(2) /\ UNCHANGED <<ast, next_edit>>
     ELSE /\ ast' = Some(disk[1].value)
          /\ next_edit' = 1
          /\ pc' = "json_validate"
          /\ UNCHANGED exit_code
  /\ UNCHANGED <<cmd, stdout, stderr, overflow_checks, params, disk, disk0, attempt, content, file_lines,
                 original_file_lines, parsed, mismatches, explicitly_touched_lines,
                 first_changed_line, noop_edits, anchor_result, final_content,
                 cloned_ast, json_result, writes>>

\* json.rs 355-371: one iteration of the first pass, which validates the
\* anchor of an edit against the AST
JsonValidate ==
  /\ cmd = "json-apply"
  /\ pc = "json_validate"
  /\ next_edit <= Len(params.edits)
  /\ \E r \in {ValidateJsonEdit(ast[1], params.edits[next_edit])} :
       IF r = None
       THEN /\ next_edit' = next_edit + 1
            /\ UNCHANGED <<pc, json_result>>
       ELSE /\ json_result' = r[1]
            /\ pc' = "json_handle"
            /\ UNCHANGED next_edit
  /\ UNCHANGED <<cmd, stdout, stderr, overflow_checks, params, disk, disk0, attempt, content, file_lines,
                 original_file_lines, parsed, mismatches, explicitly_touched_lines,
                 first_changed_line, noop_edits, anchor_result, final_content,
                 ast, cloned_ast, writes, exit_code>>

\* json.rs 373: every anchor is valid, the AST is cloned
JsonClone ==
  /\ cmd = "json-apply"
  /\ pc = "json_validate"
  /\ next_edit > Len(params.edits)
  /\ cloned_ast' = ast
  /\ next_edit' = 1
  /\ pc' = "json_apply"
  /\ UNCHANGED <<cmd, stdout, stderr, overflow_checks, params, disk, disk0, attempt, content, file_lines,
                 original_file_lines, parsed, mismatches, explicitly_touched_lines,
                 first_changed_line, noop_edits, anchor_result, final_content,
                 ast, json_result, writes, exit_code>>

\* JsonApplyEdit had it applied the edits to the AST of the caller
JsonApplyEditInPlace ==
  /\ cmd = "json-apply"
  /\ pc = "json_apply"
  /\ next_edit <= Len(params.edits)
  /\ \E r \in {ApplyJsonEdit(ast[1], params.edits[next_edit])} :
       IF r.ok
       THEN /\ ast' = Some(r.value)
            /\ cloned_ast' = Some(r.value)
            /\ next_edit' = next_edit + 1
            /\ UNCHANGED <<pc, json_result>>
       ELSE /\ json_result' = JsonOther
            /\ pc' = "json_handle"
            /\ UNCHANGED <<ast, cloned_ast, next_edit>>
  /\ UNCHANGED <<cmd, stdout, stderr, overflow_checks, params, disk, disk0, attempt, content, file_lines,
                 original_file_lines, parsed, mismatches, explicitly_touched_lines,
                 first_changed_line, noop_edits, anchor_result, final_content,
                 writes, exit_code>>

\* json.rs 376-397: one iteration of the second pass, which applies an edit
\* to the clone; on an error the function returns and the clone is dropped
JsonApplyEdit ==
  /\ cmd = "json-apply"
  /\ pc = "json_apply"
  /\ next_edit <= Len(params.edits)
  /\ \E r \in {ApplyJsonEdit(cloned_ast[1], params.edits[next_edit])} :
       IF r.ok
       THEN /\ cloned_ast' = Some(r.value)
            /\ next_edit' = next_edit + 1
            /\ UNCHANGED <<pc, json_result>>
       ELSE /\ json_result' = JsonOther
            /\ pc' = "json_handle"
            /\ UNCHANGED <<cloned_ast, next_edit>>
  /\ UNCHANGED <<cmd, stdout, stderr, overflow_checks, params, disk, disk0, attempt, content, file_lines,
                 original_file_lines, parsed, mismatches, explicitly_touched_lines,
                 first_changed_line, noop_edits, anchor_result, final_content,
                 ast, writes, exit_code>>

\* json.rs 399-401: the clone replaces the AST of the caller
JsonCommit ==
  /\ cmd = "json-apply"
  /\ pc = "json_apply"
  /\ next_edit > Len(params.edits)
  /\ ast' = cloned_ast
  /\ json_result' = JsonResult("ok", <<>>, <<>>, <<>>)
  /\ pc' = "json_handle"
  /\ UNCHANGED <<cmd, stdout, stderr, overflow_checks, params, disk, disk0, attempt, content, file_lines,
                 original_file_lines, parsed, next_edit, mismatches,
                 explicitly_touched_lines, first_changed_line, noop_edits, anchor_result,
                 final_content, cloned_ast, writes, exit_code>>

\* main.rs 347-381: the match on the result of apply_json_edits
JsonHandleResult ==
  /\ cmd = "json-apply"
  /\ pc = "json_handle"
  /\ IF json_result.kind = "mismatch" THEN ExitWith(1)
     ELSE IF json_result.kind = "other" THEN ExitWith(2)
     ELSE pc' = "json_write" /\ UNCHANGED exit_code
  /\ UNCHANGED <<jsonVars, cmd, stdout, stderr, overflow_checks, params, disk, disk0, attempt, textVars,
                 writes>>

\* main.rs 383-419: the AST is serialized and written, the run ends
JsonWrite ==
  /\ cmd = "json-apply"
  /\ pc = "json_write"
  /\ \E w \in WriteOutcomes(disk, JsonFile(ast[1]), NotJson) :
       /\ disk' = w.disk
       /\ ExitWith(IF w.ok THEN 0 ELSE 2)
  /\ writes' = writes + 1
  /\ UNCHANGED <<jsonVars, cmd, stdout, stderr, overflow_checks, params, disk0, attempt, textVars>>

\* the target file and the batch a json-apply run starts with
JsonInputs ==
  UNION {{[disk |-> Some(JsonFile(d)), params |-> [valid |-> TRUE, edits |-> b]] :
            b \in JsonBatches(d)} : d \in DocSet}
  \cup {[disk |-> Some(JsonFile(d)), params |-> [valid |-> FALSE, edits |-> <<>>]] :
          d \in DocSet}
  \cup {[disk |-> Some(NotJson), params |-> [valid |-> TRUE, edits |-> <<>>]],
        [disk |-> None, params |-> [valid |-> TRUE, edits |-> <<>>]]}

(***************************************************************************)
(* main.rs: Commands::Hash                                                 *)
(***************************************************************************)
\* one run of the loop over content.split('\n').enumerate(): a line
\* LINE:HASH for every line
HashListing(text) ==
  The({[i \in 1..Len(ls) |-> FormatLoc(i, compute_line_hash(i, ls[i]))] :
         ls \in {SplitOn(text, LF)}})

\* main.rs 252-270: the file is read, the loop of lines 260-263 prints the
\* listing and the loop of lines 265-268 prints it again
HashCommand ==
  /\ cmd = "hash"
  /\ pc = "start"
  /\ IF disk = None
     THEN ExitWith(2) /\ UNCHANGED stdout
     ELSE /\ \E listing \in {HashListing(read_normalized(disk[1]))} :
               stdout' = listing \o listing
          /\ ExitWith(0)
  /\ UNCHANGED <<jsonVars, cmd, stderr, overflow_checks, params, disk, disk0, attempt,
                 textVars, writes>>

\* the file a hash run starts with
HashInputs ==
  {[disk |-> Some(FileBytes(f)), params |-> [valid |-> TRUE, edits |-> <<>>]] : f \in FileSet}
  \cup {[disk |-> Some(JoinWith(f, <<"\r", LF>>) \o <<"\r", LF>>),
          params |-> [valid |-> TRUE, edits |-> <<>>]] : f \in FileSet}
  \cup {[disk |-> Some(<<>>), params |-> [valid |-> TRUE, edits |-> <<>>]],
        [disk |-> None, params |-> [valid |-> TRUE, edits |-> <<>>]]}

(***************************************************************************)
(* The specification: one run of apply, of json-apply or of hash           *)
(***************************************************************************)
Init ==
  /\ cmd \in {"apply", "json-apply", "hash"}
  /\ overflow_checks \in BOOLEAN
  /\ \E i \in (IF cmd = "apply" THEN ApplyInputs
              ELSE IF cmd = "json-apply" THEN JsonInputs ELSE HashInputs) :
       disk = i.disk /\ params = i.params
  /\ disk0 = disk
  /\ pc = "start"
  /\ attempt = 1
  /\ TextInit
  /\ JsonInit
  /\ writes = 0
  /\ stdout = <<>>
  /\ stderr = <<>>
  /\ exit_code = Running

Next ==
  \/ ApplyParseParams
  \/ ApplyReadTarget
  \/ EngineStart
  \/ ValidateEdit
  \/ ValidateFinish
  \/ SpliceEdit
  \/ EngineFinish
  \/ ApplyHandleResult
  \/ ApplyReplace
  \/ ApplyWrite
  \/ Retry
  \/ JsonParseParams
  \/ JsonReadTarget
  \/ JsonValidate
  \/ JsonClone
  \/ JsonApplyEdit
  \/ JsonCommit
  \/ JsonHandleResult
  \/ JsonWrite
  \/ HashCommand

Spec == Init /\ [][Next]_vars

(***************************************************************************)
(* The claims about the text engine                                        *)
(***************************************************************************)
\* the lines of the target file when the run of apply started
TargetLines == SplitOn(read_normalized(disk0[1]), LF)

\* the run is an apply on a target file that exists
ApplyRun == cmd = "apply" /\ disk0 # None

\* a reference <<line, hash>> on a line of the file whose hash is not the
\* hash of that line
StaleRef(ref, lines) ==
  /\ ref[1] \in 1..Len(lines)
  /\ compute_line_hash(ref[1], lines[ref[1]]) # ToLowercase(ref[2])

\* the lines of the file that have the hash
Holders(hash, lines) ==
  {n \in 1..Len(lines) : compute_line_hash(n, lines[n]) = ToLowercase(hash)}

\* a reference that is valid where it is or that relocation can move
Locatable(ref, lines) ==
  /\ ref[1] \in 1..Len(lines)
  /\ ~StaleRef(ref, lines) \/ Cardinality(Holders(ref[2], lines)) = 1

\* the line a locatable reference is validated at
LocatedLine(ref, lines) ==
  IF ~StaleRef(ref, lines) THEN ref[1] ELSE CHOOSE n \in Holders(ref[2], lines) : TRUE

\* the anchor strings an edit supplies
SuppliedAnchors(e) ==
  {e.anchor} \cup (IF e.end_anchor = None THEN {} ELSE {e.end_anchor[1]})

\* the references <<line, hash>> the parsed edit keeps: a replace_lines whose
\* anchors name the same line degrades to a SetLine and keeps the start only
KeptRefs(e) ==
  LET p == parse_hashline_edit(e)
  IN IF p.kind # "ok" THEN {}
     ELSE {<<p.spec.line, p.spec.hash>>}
            \cup (IF p.spec.kind = "Range" THEN {<<p.spec.end_line, p.spec.end_hash>>}
                  ELSE {})

\* some edit of the batch keeps a stale reference that cannot be relocated
BatchHasStaleRef ==
  \E i \in 1..Len(anchor_edits) : \E ref \in KeptRefs(anchor_edits[i]) :
    StaleRef(ref, TargetLines) /\ ~Locatable(ref, TargetLines)

\* some edit of the batch does not parse, names a line outside the file or a
\* range that starts after its end
BatchHasOtherError ==
  \E i \in 1..Len(anchor_edits) :
    LET p == parse_hashline_edit(anchor_edits[i])
    IN \/ p.kind # "ok"
       \/ OutOfRange(p.spec.line, TargetLines)
       \/ p.spec.kind = "Range"
            /\ (OutOfRange(p.spec.end_line, TargetLines) \/ p.spec.line > p.spec.end_line)

\* the mismatch the engine records for a stale reference
MismatchOf(ref, lines) ==
  HashMismatch(ref[1], ref[2], compute_line_hash(ref[1], lines[ref[1]]))

InSeq(x, seq) == \E j \in 1..Len(seq) : seq[j] = x

\* C1 (as amended): if an edit of a batch keeps a reference whose hash differs
\* from the hash of its line and is absent from the unique-hash index, no edit
\* of the batch is applied: the call never returns Ok, no splice happens, no
\* content is returned and the file is not written.  The error is
\* HashlineMismatchError unless an edit of the batch does not parse or names a
\* line out of range, in which case that error is returned instead.
C1_StaleBatchIsNotApplied ==
  (ApplyRun /\ BatchHasStaleRef) =>
    /\ anchor_result.kind \in {"none", "mismatch", "err"}
    /\ anchor_result.content = <<>>
    /\ pc \notin {"splice", "replace", "write"}
    /\ file_lines \in {<<>>, TargetLines}
    /\ first_changed_line = None
    /\ writes = 0 /\ disk = disk0
    /\ anchor_result.kind = "err" => BatchHasOtherError
    /\ anchor_result.kind = "mismatch" => anchor_result.mismatches # <<>>

\* C1's case: a batch of two edits, one with valid anchors and one with a
\* stale anchor, was rejected with the mismatch of the stale one
C1_Witness ==
  /\ ApplyRun /\ BatchHasStaleRef
  /\ Len(anchor_edits) = 2
  /\ \E i \in 1..2 : \A ref \in KeptRefs(anchor_edits[i]) :
       ref[1] \in 1..Len(TargetLines) /\ ~StaleRef(ref, TargetLines)
  /\ anchor_result.kind = "mismatch"
  /\ Len(anchor_result.mismatches) = 1
  /\ pc = "exited" /\ exit_code = 1

\* C1 as claimed: with such a stale reference in the batch the call returns
\* HashlineMismatchError
C1_AsClaimed ==
  (ApplyRun /\ BatchHasStaleRef) => anchor_result.kind \in {"none", "mismatch"}

\* the batch has passed validation: the splices run or the call returned Ok
BatchApplied ==
  /\ ApplyRun
  /\ anchor_edits # <<>>
  /\ pc = "splice" \/ anchor_result.kind = "ok"

\* C2 (as amended): a batch is applied only if every reference its parsed
\* edits keep (both ends of a replace_lines over two or more lines; the start
\* only when the end anchor is absent or names the line of the start) is on a
\* line of the file and has the hash of its line or was relocated to the one
\* line that has its hash.
C2_AppliedOnlyIfKeptRefsValid ==
  BatchApplied =>
    \A i \in 1..Len(anchor_edits) : \A ref \in KeptRefs(anchor_edits[i]) :
      Locatable(ref, TargetLines)

\* C2's case: a replace_lines over two lines was applied after its start
\* anchor was relocated
C2_Witness ==
  /\ BatchApplied
  /\ anchor_result.kind = "ok"
  /\ first_changed_line # None
  /\ \E i \in 1..Len(anchor_edits) :
       /\ anchor_edits[i].op = "replace_lines"
       /\ Cardinality(KeptRefs(anchor_edits[i])) = 2
       /\ \E ref \in KeptRefs(anchor_edits[i]) : StaleRef(ref, TargetLines)

\* C2 as claimed: a batch is applied only if every anchor string it supplies,
\* the end_anchor of every replace_lines included, matched or was relocated
C2_AsClaimed ==
  BatchApplied =>
    \A i \in 1..Len(anchor_edits) : \A a \in SuppliedAnchors(anchor_edits[i]) :
      LET r == parse_line_ref(a)
      IN r.kind = "ok" /\ Locatable(<<r.line, r.hash>>, TargetLines)

\* the edit has one anchor (SetLine, InsertAfter) and it is stale
StaleSingle(e, lines) ==
  /\ e.op \in {"set_line", "insert_after"}
  /\ parse_line_ref(e.anchor).kind = "ok"
  /\ StaleRef(<<parse_line_ref(e.anchor).line, parse_line_ref(e.anchor).hash>>, lines)

AnchorRef(e) == <<parse_line_ref(e.anchor).line, parse_line_ref(e.anchor).hash>>

RangeMovedOutOfScope(e, lines) ==
  LET p == parse_hashline_edit(e)
      s == <<p.spec.line, p.spec.hash>>
      t == <<p.spec.end_line, p.spec.end_hash>>
  IN /\ p.kind = "ok" /\ p.spec.kind = "Range"
     /\ p.spec.line <= p.spec.end_line
     /\ Locatable(s, lines) /\ Locatable(t, lines)
     /\ StaleRef(s, lines) \/ StaleRef(t, lines)
     /\ \/ LocatedLine(s, lines) > LocatedLine(t, lines)
        \/ LocatedLine(t, lines) - LocatedLine(s, lines) # p.spec.end_line - p.spec.line

\* C4: a Range that relocation moves to a range with start > end or with
\* another span length is rejected with a HashlineMismatchError that carries
\* the mismatches at the original start and end lines (checked on batches of
\* that one edit).
C4_RangeRelocationRejected ==
  (/\ ApplyRun
   /\ Len(anchor_edits) = 1
   /\ RangeMovedOutOfScope(anchor_edits[1], TargetLines)) =>
    /\ exit_code # PanicExit
    /\ anchor_result.kind \in {"none", "mismatch"}
    /\ anchor_result.kind = "mismatch" =>
         LET p == parse_hashline_edit(anchor_edits[1])
         IN /\ InSeq(MismatchOf(<<p.spec.line, p.spec.hash>>, TargetLines),
                     anchor_result.mismatches)
            /\ InSeq(MismatchOf(<<p.spec.end_line, p.spec.end_hash>>, TargetLines),
                     anchor_result.mismatches)

\* C5: after a HashlineMismatchError the same batch, submitted again on the
\* unchanged file with every stale anchor replaced by its entry in remaps(),
\* produces no HashlineMismatchError.
C5_OneRetryIsEnough ==
  (ApplyRun /\ attempt > 1) => anchor_result.kind # "mismatch"

\* the replace edits of the batch fail on the content the anchored edits
\* returned
ReplaceFails ==
  /\ anchor_result.kind = "ok"
  /\ replace_edits # <<>>
  /\ apply_replace_edits(anchor_result.content, replace_edits).kind = "err"

\* C6: in the apply command the target file is written at most once and only
\* after the anchored edits and every replace edit of the batch have
\* succeeded; when the command exits because of an engine error (mismatch,
\* bounds, parse, missing or ambiguous substring) the exit code is not 0 and
\* the file content is unchanged.
C6_WrittenOnceAfterSuccess ==
  cmd = "apply" =>
    /\ writes <= 1
    /\ writes = 0 => disk = disk0
    /\ writes = 1 =>
         /\ anchor_result.kind = "ok"
         /\ ~ReplaceFails
         /\ pc = "exited" /\ exit_code \in {0, 2}
         /\ exit_code = 0 => disk = Some(final_content \o <<LF>>)
    /\ (pc = "exited" /\ (anchor_result.kind \in {"mismatch", "err"} \/ ReplaceFails)) =>
         /\ exit_code \in {1, 2}
         /\ writes = 0
         /\ disk = disk0

\* C6's case: anchored edits and a replace edit succeeded, then the file
\* was written once with the new content
C6_Witness ==
  /\ cmd = "apply"
  /\ anchor_edits # <<>> /\ replace_edits # <<>>
  /\ first_changed_line # None
  /\ writes = 1 /\ exit_code = 0
  /\ disk # disk0

\* the engine of the command reported a hash mismatch
EngineMismatch ==
  IF cmd = "apply" THEN anchor_result.kind = "mismatch" ELSE json_result.kind = "mismatch"

\* the batch succeeded: the engine returned Ok, the replace edits too, and
\* the file was written
BatchSucceeded ==
  /\ writes = 1
  /\ IF cmd = "apply" THEN disk = Some(final_content \o <<LF>>)
     ELSE disk = Some(JsonFile(ast[1]))

\* C7: apply and json-apply exit with code 1 if and only if the engine
\* reported a hash mismatch, with 0 only when the batch succeeded, and with 2
\* on every other failure.
C7_ExitCodes ==
  (cmd \in {"apply", "json-apply"} /\ pc = "exited") =>
    /\ exit_code \in {0, 1, 2}
    /\ exit_code = 1 <=> EngineMismatch
    /\ exit_code = 0 => BatchSucceeded

(***************************************************************************)
(* The claims about the JSON engine                                        *)
(***************************************************************************)
\* C8: whenever apply_json_edits returns an error, for a stale anchor at any
\* position of the batch or for a failure while a later edit is applied, the
\* AST of the caller is the AST it passed in, and the target file is not
\* written.
C8_JsonErrorLeavesAst ==
  (cmd = "json-apply" /\ json_result.kind \in {"mismatch", "other"}) =>
    /\ ast = Some(disk0[1].value)
    /\ writes = 0 /\ disk = disk0

\* C8's case: the second edit of a batch failed after the first had changed
\* the clone
C8_Witness ==
  /\ cmd = "json-apply"
  /\ json_result.kind = "other"
  /\ Len(params.edits) = 2
  /\ next_edit = 2
  /\ cloned_ast # None /\ cloned_ast # ast
  /\ ast = Some(disk0[1].value)

\* the node of the value at the segments, None where there is none
NodeAt(value, segments) ==
  LET r == query_path_segments(value, segments)
  IN IF r.ok THEN Some(r.value) ELSE None

\* C9: every PATH:HASH anchor format_json_anchors prints for a document, keys
\* with '.', '[' or spaces included, is accepted by apply_json_edits on the
\* same AST and addresses the node it was printed for: a set_path with the
\* anchor returns Ok and puts the value at that node.
C9_PrintedAnchorsRoundTrip ==
  (/\ cmd = "json-apply"
   /\ json_result.kind # "none"
   /\ Len(params.edits) = 1
   /\ params.edits[1].op = "set_path") =>
    \A i \in 1..Len(AnchorListing(disk0[1].value)) :
      LET printed == AnchorListing(disk0[1].value)[i]
      IN params.edits[1].anchor = printed.anchor =>
           /\ json_result.kind = "ok"
           /\ NodeAt(ast[1], printed.loc) = Some(params.edits[1].value)

\* the batch is one SetLine whose anchor has the hash of its line k, and the
\* engine returned Ok
MatchingSetLineApplied ==
  /\ ApplyRun
  /\ Len(params.edits) = 1
  /\ params.edits[1].op = "set_line"
  /\ parse_line_ref(params.edits[1].anchor).kind = "ok"
  /\ AnchorRef(params.edits[1])[1] \in 1..Len(TargetLines)
  /\ ~StaleRef(AnchorRef(params.edits[1]), TargetLines)
  /\ anchor_result.kind = "ok"

\* the lines before line a and the lines after line b are the lines of the
\* file, in their positions relative to the replacement of a..b
FrameKept(lines, result, a, b) ==
  /\ Len(result) >= Len(lines) - (b - a + 1)
  /\ \A j \in 1..(a - 1) : result[j] = lines[j]
  /\ \A j \in 1..(Len(lines) - b) :
       result[Len(result) - j + 1] = lines[Len(lines) - j + 1]

\* C10 (as amended): a batch of one SetLine whose anchor matches line k
\* changes line k and nothing else, with first_changed_line = k, unless the
\* replacement after the heuristics is line k itself (the edit is recorded as
\* a no-op, the content is unchanged and first_changed_line is absent) or the
\* single-line merge expansion fires (lines k and k+1, or k-1 and k, are
\* replaced by the one replacement line, first_changed_line is the first of
\* the two and every other line is kept).
C10_SetLineFrame ==
  MatchingSetLineApplied =>
    LET k == AnchorRef(params.edits[1])[1]
        m == maybe_expand_single_line_merge(k, parsed[1].dst_lines, TargetLines, {k})
    IN IF first_changed_line = None
       THEN /\ file_lines = TargetLines
            /\ Len(noop_edits) = 1
            /\ anchor_result.content = JoinWith(TargetLines, <<LF>>)
       ELSE IF m = None
       THEN /\ first_changed_line = Some(k)
            /\ FrameKept(TargetLines, file_lines, k, k)
            /\ file_lines # TargetLines
       ELSE /\ m[1].start \in {k - 1, k}
            /\ first_changed_line = Some(m[1].start)
            /\ FrameKept(TargetLines, file_lines, m[1].start, m[1].start + 1)
            /\ Len(file_lines) = Len(TargetLines) - 1

\* C10's case: a SetLine on a line between two others replaced that line by
\* two lines
C10_Witness ==
  /\ MatchingSetLineApplied
  /\ Len(TargetLines) = 3
  /\ first_changed_line = Some(2)
  /\ Len(file_lines) = 4
  /\ file_lines[1] = TargetLines[1] /\ file_lines[4] = TargetLines[3]

\* C10 as claimed, for an edit that changes the content: the SetLine changes
\* line k and nothing else, and first_changed_line = k
C10_AsClaimed ==
  (MatchingSetLineApplied /\ file_lines # TargetLines) =>
    /\ first_changed_line = Some(AnchorRef(params.edits[1])[1])
    /\ FrameKept(TargetLines, file_lines,
                 AnchorRef(params.edits[1])[1], AnchorRef(params.edits[1])[1])

(***************************************************************************)
(* The claims about single edits                                           *)
(***************************************************************************)
\* the batch is one anchored edit with the operation op, and the file exists
OneEdit(op) ==
  /\ ApplyRun
  /\ Len(params.edits) = 1
  /\ params.edits[1].op = op

\* the anchor string names a line of the file and has the hash of that line
ValidAnchor(a, lines) ==
  /\ parse_line_ref(a).kind = "ok"
  /\ parse_line_ref(a).line \in 1..Len(lines)
  /\ ~StaleRef(<<parse_line_ref(a).line, parse_line_ref(a).hash>>, lines)

LineOf(a) == parse_line_ref(a).line

\* the batch is one ReplaceLines with valid anchors over lines a < b and an
\* empty or absent new_text
DeletesRange ==
  /\ OneEdit("replace_lines")
  /\ params.edits[1].new_text \in {None, Some(<<>>)}
  /\ params.edits[1].end_anchor # None
  /\ ValidAnchor(params.edits[1].anchor, TargetLines)
  /\ ValidAnchor(params.edits[1].end_anchor[1], TargetLines)
  /\ LineOf(params.edits[1].anchor) < LineOf(params.edits[1].end_anchor[1])

\* C11: a ReplaceLines with valid anchors over lines [a, b], a < b, and an
\* empty or absent new_text succeeds and yields lines 1..a-1 followed by
\* lines b+1..N of the input, with first_changed_line = a.
C11_DeleteRange ==
  DeletesRange =>
    LET a == LineOf(params.edits[1].anchor)
        b == LineOf(params.edits[1].end_anchor[1])
        kept == SubSeq(TargetLines, 1, a - 1) \o SubSeq(TargetLines, b + 1, Len(TargetLines))
    IN /\ anchor_result.kind \in {"none", "ok"}
       /\ exit_code # PanicExit
       /\ anchor_result.kind = "ok" =>
            /\ file_lines = kept
            /\ anchor_result.content = JoinWith(kept, <<LF>>)
            /\ first_changed_line = Some(a)
            /\ anchor_result.first_changed_line = Some(a)
            /\ noop_edits = <<>>

\* C11's case: lines 2..3 of a file of three lines were deleted
C11_Witness ==
  /\ DeletesRange
  /\ Len(TargetLines) = 3
  /\ LineOf(params.edits[1].anchor) = 2
  /\ anchor_result.kind = "ok"
  /\ file_lines = <<TargetLines[1]>>
  /\ pc = "exited" /\ exit_code = 0

\* the text of an InsertAfter: text, else content, else empty
InsertText(e) == UnwrapOrDefault(IF e.new_text # None THEN e.new_text ELSE e.content)

\* the batch is one InsertAfter with a valid anchor
InsertsAfterValid ==
  /\ OneEdit("insert_after")
  /\ ValidAnchor(params.edits[1].anchor, TargetLines)

\* C12 (as amended): an InsertAfter with a valid anchor at line k and
\* non-empty text t yields lines 1..k of the input, then the lines of t in
\* order, then lines k+1..N, with first_changed_line = k+1; the lines of t are
\* taken after the prefix stripping, and when t has two or more lines and its
\* first line equals line k up to whitespace, that first line is left out.
C12_InsertAfterLines ==
  (InsertsAfterValid /\ InsertText(params.edits[1]) # <<>>) =>
    LET k == LineOf(params.edits[1].anchor)
        t == strip_new_line_prefixes(SplitOn(InsertText(params.edits[1]), LF))
        echo == /\ Len(t) > 1
                /\ \/ t[1] = TargetLines[k]
                   \/ strip_all_whitespace(t[1]) = strip_all_whitespace(TargetLines[k])
        inserted == IF echo THEN Tail(t) ELSE t
    IN /\ anchor_result.kind \in {"none", "ok"}
       /\ exit_code # PanicExit
       /\ anchor_result.kind = "ok" =>
            /\ file_lines = SubSeq(TargetLines, 1, k) \o inserted
                              \o SubSeq(TargetLines, k + 1, Len(TargetLines))
            /\ first_changed_line = Some(k + 1)
            /\ noop_edits = <<>>

\* C12's case: a text of two lines was inserted after line 1 of a file of
\* two lines
C12_Witness ==
  /\ InsertsAfterValid
  /\ InsertText(params.edits[1]) = TextTwo
  /\ Len(TargetLines) = 2
  /\ LineOf(params.edits[1].anchor) = 1
  /\ anchor_result.kind = "ok"
  /\ file_lines = <<TargetLines[1], <<"z">>, <<"w">>, TargetLines[2]>>
  /\ first_changed_line = Some(2)

\* C12 as claimed: every line of t is inserted after line k
C12_AsClaimed ==
  (/\ InsertsAfterValid
   /\ InsertText(params.edits[1]) # <<>>
   /\ anchor_result.kind = "ok") =>
    LET k == LineOf(params.edits[1].anchor)
    IN /\ file_lines = SubSeq(TargetLines, 1, k)
                         \o SplitOn(InsertText(params.edits[1]), LF)
                         \o SubSeq(TargetLines, k + 1, Len(TargetLines))
       /\ first_changed_line = Some(k + 1)

LineDigits(a) == TakeN(CleanLineRef(a), LeadingCount(CleanLineRef(a), DigitChars))

\* the anchor string names a line number outside 1..N: the number it parses
\* to, a number above usize::MAX, or the number 0
NamesLineOutside(a, lines) ==
  \/ parse_line_ref(a).kind = "ok" /\ OutOfRange(parse_line_ref(a).line, lines)
  \/ /\ parse_line_ref(a).kind # "ok"
     /\ LineDigits(a) # <<>>
     /\ Len(CleanLineRef(a)) > Len(LineDigits(a))
     /\ CleanLineRef(a)[Len(LineDigits(a)) + 1] = ":"
     /\ ~ParseUsize(LineDigits(a)).ok \/ ParseUsize(LineDigits(a)).v = 0

\* the edit names a line outside the file, or is a Range that starts after
\* its end
OutOfBounds(e, lines) ==
  \/ \E a \in SuppliedAnchors(e) : NamesLineOutside(a, lines)
  \/ /\ parse_hashline_edit(e).kind = "ok"
     /\ parse_hashline_edit(e).spec.kind = "Range"
     /\ parse_hashline_edit(e).spec.line > parse_hashline_edit(e).spec.end_line

\* C14: an edit that references a line number outside [1, N], or a Range
\* whose start line is greater than its end line, makes apply_hashline_edits
\* fail with an error that is no mismatch error, and no edit of the batch is
\* applied.
C14_OutOfBoundsFails ==
  (/\ ApplyRun
   /\ \E i \in 1..Len(anchor_edits) : OutOfBounds(anchor_edits[i], TargetLines)) =>
    /\ anchor_result.kind \in {"none", "err"}
    /\ exit_code \notin {0, 1, PanicExit}
    /\ pc \notin {"splice", "replace", "write"}
    /\ file_lines \in {<<>>, TargetLines}
    /\ first_changed_line = None
    /\ writes = 0 /\ disk = disk0

\* the parsed edit i of the batch after its validation on the target file
Validated(i) ==
  ValidateOne(ParseAll(anchor_edits, 1).parsed[i], TargetLines,
              unique_line_by_hash(TargetLines), FALSE).p

\* what the engine does with the batch of the one edit e on the lines: the
\* edit is parsed, validated and spliced
OneEditOutcome(lines, e) ==
  LET v == ValidateOne(ParseAll(<<e>>, 1).parsed[1], lines,
                       unique_line_by_hash(lines), FALSE).p
  IN SpliceOne(SpliceState(FALSE, lines, None, <<>>), v, lines, collect_touched(<<v>>))

\* the batch is two anchored edits that pass validation and, after
\* relocation, have the same kind, the same line or range and the same
\* replacement lines
TwoDuplicates ==
  /\ ApplyRun
  /\ Len(params.edits) = 2 /\ Len(anchor_edits) = 2
  /\ ParseAll(anchor_edits, 1).kind = "ok"
  /\ \A i \in 1..2 : \A ref \in KeptRefs(anchor_edits[i]) : Locatable(ref, TargetLines)
  /\ \A i \in 1..2 : ~OutOfBounds(anchor_edits[i], TargetLines)
  /\ Validated(1).spec.kind = Validated(2).spec.kind
  /\ Validated(1).spec.line = Validated(2).spec.line
  /\ Validated(1).spec.end_line = Validated(2).spec.end_line
  /\ Validated(1).dst_lines = Validated(2).dst_lines

\* C15: of the edits of a batch that after relocation have the same kind,
\* the same line or range and the same replacement lines only the first is
\* applied: the content and first_changed_line are those of the batch without
\* the later duplicate.
C15_DuplicatesAppliedOnce ==
  (anchor_result.kind \notin {"none", "mismatch"} /\ TwoDuplicates) =>
    /\ anchor_result.kind = "ok"
    /\ file_lines = OneEditOutcome(TargetLines, anchor_edits[1]).file_lines
    /\ anchor_result.content =
         JoinWith(OneEditOutcome(TargetLines, anchor_edits[1]).file_lines, <<LF>>)
    /\ first_changed_line = OneEditOutcome(TargetLines, anchor_edits[1]).first_changed_line
    /\ Len(parsed) = 1 /\ parsed[1].idx = 0

\* C15's case: two InsertAfter with different anchors, one of them relocated
\* to the line of the other, inserted their line once
C15_Witness ==
  /\ pc = "exited" /\ exit_code = 0
  /\ anchor_result.kind = "ok"
  /\ TwoDuplicates
  /\ anchor_edits[1].op = "insert_after"
  /\ anchor_edits[1].anchor # anchor_edits[2].anchor
  /\ Len(file_lines) = Len(TargetLines) + 1

\* the 0-based offsets at which the needle occurs in the text
Occurrences(hay, needle) ==
  {i \in 0..(Len(hay) - Len(needle)) : SubSeq(hay, i + 1, i + Len(needle)) = needle}

\* the replace edits from edit i on, as C16 states them: each on the content
\* the previous one produced, each successful only if its old_text is not
\* empty and occurs at exactly one position, which is then replaced
RECURSIVE SequentialReplace(_, _, _)
SequentialReplace(text, edits, i) ==
  IF i > Len(edits) THEN [ok |-> TRUE, content |-> text]
  ELSE LET old == edits[i].old_text[1]
           at == Occurrences(text, old)
       IN IF old = <<>> \/ Cardinality(at) # 1 THEN [ok |-> FALSE, content |-> <<>>]
          ELSE SequentialReplace(SpliceSeq(text, CHOOSE o \in at : TRUE, Len(old),
                                           edits[i].new_text[1]),
                                 edits, i + 1)

\* C16: apply_replace_edits processes the Replace edits in input order, each
\* on the content the previous one produced; an edit succeeds only if its
\* old_text is not empty and occurs at exactly one position of the current
\* content, and then that occurrence is replaced; otherwise the call fails
\* and returns no content.
C16_ReplaceExactlyOnce ==
  (/\ ApplyRun
   /\ anchor_result.kind = "ok"
   /\ replace_edits # <<>>
   /\ pc \in {"write", "exited"}) =>
    LET r == SequentialReplace(anchor_result.content, replace_edits, 1)
    IN IF r.ok
       THEN /\ final_content = r.content
            /\ pc = "exited" => writes = 1
       ELSE /\ pc = "exited" /\ exit_code = 2
            /\ final_content = anchor_result.content
            /\ writes = 0 /\ disk = disk0

(***************************************************************************)
(* The claims about the anchor parser, the report and the hash command     *)
(***************************************************************************)
\* C17: parse_line_ref returns a LineRef or an error for every input string
\* and never panics, anchors with a long digit string as line number
\* included: every anchor the engine has parsed gave one of the two.
C17_ParseLineRefNeverPanics ==
  (ApplyRun /\ anchor_edits # <<>> /\ pc \notin {"start", "read_target", "engine"}) =>
    /\ ParseAll(anchor_edits, 1).kind \in {"ok", "err"}
    /\ parsed # <<>> =>
         \A i \in 1..Len(anchor_edits) : \A a \in SuppliedAnchors(anchor_edits[i]) :
           parse_line_ref(a).kind \in {"ok", "err"}

\* C18: every line of the mismatch report that bears an anchor, the
\* ">>> LINE:HASH|content" lines and the context lines indented by four
\* spaces, is parsed by parse_line_ref to its line number and the hash of
\* the line: every displayed line has its report line.
C18_ReportLinesParse ==
  (ApplyRun /\ anchor_result.kind = "mismatch" /\ pc = "exited") =>
    /\ Len(stderr) >= 2 + Cardinality(DisplayLines(anchor_result.mismatches, TargetLines))
    /\ \A n \in DisplayLines(anchor_result.mismatches, TargetLines) :
         \E j \in 3..Len(stderr) :
           /\ parse_line_ref(stderr[j]).kind = "ok"
           /\ parse_line_ref(stderr[j]).line = n
           /\ parse_line_ref(stderr[j]).hash = compute_line_hash(n, TargetLines[n])
           /\ EndsWith(stderr[j], <<"|">> \o TargetLines[n])

\* C19: the hash command prints one LINE:HASH line for each line of the
\* file, in increasing line order: a file of N lines yields N output lines.
C19_HashOneLinePerLine ==
  (cmd = "hash" /\ disk0 # None /\ pc = "exited") =>
    /\ exit_code = 0
    /\ Len(stdout) = Len(TargetLines)
    /\ \A i \in 1..Len(TargetLines) :
         i <= Len(stdout)
           /\ stdout[i] = FormatLoc(i, compute_line_hash(i, TargetLines[i]))

\* the batch is two SetLine edits with valid anchors on the same line and
\* different replacements
TwoSetLinesOnOneLine ==
  /\ ApplyRun
  /\ Len(params.edits) = 2
  /\ \A i \in 1..2 : /\ params.edits[i].op = "set_line"
                     /\ ValidAnchor(params.edits[i].anchor, TargetLines)
  /\ LineOf(params.edits[1].anchor) = LineOf(params.edits[2].anchor)
  /\ params.edits[1].new_text # params.edits[2].new_text

\* C20: of two SetLine edits on the same line with different replacements
\* the later in input order wins: the content is the content the batch of
\* the later edit alone produces.
C20_LaterSetLineWins ==
  (TwoSetLinesOnOneLine /\ anchor_result.kind # "none") =>
    /\ anchor_result.kind = "ok"
    /\ file_lines = OneEditOutcome(TargetLines, params.edits[2]).file_lines
    /\ anchor_result.content =
         JoinWith(OneEditOutcome(TargetLines, params.edits[2]).file_lines, <<LF>>)


(***************************************************************************)
(* The claims about batches of several anchored edits                      *)
(***************************************************************************)
\* the edit is a SetLine on line k or a ReplaceLines that ends at line k,
\* with valid anchors
ReplacesUpTo(e, k, lines) ==
  \/ /\ e.op = "set_line"
     /\ ValidAnchor(e.anchor, lines)
     /\ LineOf(e.anchor) = k
  \/ /\ e.op = "replace_lines"
     /\ e.end_anchor # None
     /\ ValidAnchor(e.anchor, lines)
     /\ ValidAnchor(e.end_anchor[1], lines)
     /\ LineOf(e.anchor) <= k
     /\ LineOf(e.end_anchor[1]) = k

\* the edit is an InsertAfter with a valid anchor on line k
InsertsAfter(e, k, lines) ==
  /\ e.op = "insert_after"
  /\ ValidAnchor(e.anchor, lines)
  /\ LineOf(e.anchor) = k

\* the result the claim C21 states for the replacement r that ends at line k
\* and the InsertAfter ins on line k: what r alone makes of the lines 1..k,
\* then what ins alone puts after line k, then the lines after k
ReplacedThenInserted(lines, r, ins, k) ==
  LET replaced == OneEditOutcome(lines, r).file_lines
      inserted == OneEditOutcome(lines, ins).file_lines
  IN SubSeq(replaced, 1, Len(replaced) - (Len(lines) - k))
       \o SubSeq(inserted, k + 1, Len(inserted))

\* C21: when a batch holds a replacement (SetLine or Range) that ends at line
\* k and an InsertAfter on line k, the inserted lines stand in the result
\* right after the replacement and right before the original line k+1, for a
\* replacement of every length, a deletion and a multi-line replacement
\* included.
C21_InsertFollowsReplacement ==
  \A i \in 1..2 : \A k \in 1..MaxLines :
    (/\ ApplyRun
     /\ pc = "exited"
     /\ Len(params.edits) = 2
     /\ ReplacesUpTo(params.edits[i], k, TargetLines)
     /\ InsertsAfter(params.edits[3 - i], k, TargetLines)) =>
      /\ anchor_result.kind = "ok"
      /\ file_lines = ReplacedThenInserted(TargetLines, params.edits[i],
                                           params.edits[3 - i], k)

\* the batch of anchored edits passes the validation: every edit is parsed
\* and the validation loop finds no bounds error and no mismatch
PassedValidation ==
  /\ ApplyRun
  /\ anchor_edits # <<>>
  /\ ParseAll(anchor_edits, 1).kind = "ok"
  /\ \A i \in 1..Len(anchor_edits) :
       LET r == ValidateOne(ParseAll(anchor_edits, 1).parsed[i], TargetLines,
                            unique_line_by_hash(TargetLines), overflow_checks)
       IN r.kind = "ok" /\ r.pushed = <<>>

\* C22: for every batch of anchored edits that passes validation, batches
\* whose lines or ranges overlap, coincide or contain one another included,
\* the splice phase never splices outside the current vector of lines:
\* apply_hashline_edits returns and does not panic.
C22_SpliceNeverPanics ==
  (pc = "exited" /\ PassedValidation) =>
    /\ exit_code # PanicExit
    /\ anchor_result.kind = "ok"


\* the lines of the original file the validated edit v targets
Targeted(v) ==
  IF v.spec.kind = "Range" THEN v.spec.line..v.spec.end_line ELSE {v.spec.line}

\* the text of the edit as it was sent
RawText(e) == IF e.op = "insert_after" THEN InsertText(e) ELSE UnwrapOrDefault(e.new_text)

\* the validated edits vs, whose targets are disjoint, applied at once from
\* line n on: a line that starts a replacement gives the replacement lines, a
\* line inside a replaced range gives nothing, every other line itself, and an
\* InsertAfter on the line gives its lines after it
RECURSIVE SimultaneousFrom(_, _, _)
SimultaneousFrom(lines, vs, n) ==
  IF n > Len(lines) THEN <<>>
  ELSE LET starts == {v \in vs : v.spec.kind # "InsertAfter" /\ v.spec.line = n}
           inside == {v \in vs : v.spec.kind = "Range" /\ n \in Targeted(v)}
           after == {v \in vs : v.spec.kind = "InsertAfter" /\ v.spec.line = n}
       IN (IF starts # {} THEN (CHOOSE v \in starts : TRUE).dst_lines
           ELSE IF inside # {} THEN <<>>
           ELSE <<lines[n]>>)
          \o (IF after # {} THEN (CHOOSE v \in after : TRUE).dst_lines ELSE <<>>)
          \o SimultaneousFrom(lines, vs, n + 1)

\* the validated edits of the batch without their input index: a set, the
\* same for every permutation of the batch
ValidatedSet ==
  {[spec |-> Validated(i).spec, dst_lines |-> Validated(i).dst_lines] :
     i \in 1..Len(anchor_edits)}

\* no repair heuristic fires on the edit i: its parsed lines are the lines
\* of its text, and the edit alone makes of the file what the plain
\* replacement of its target makes of it
NoHeuristicFires(i) ==
  /\ ParseAll(anchor_edits, 1).parsed[i].dst_lines = split_dst_lines(RawText(anchor_edits[i]))
  /\ OneEditOutcome(TargetLines, anchor_edits[i]).file_lines
       = SimultaneousFrom(TargetLines,
                          {[spec |-> Validated(i).spec, dst_lines |-> Validated(i).dst_lines]}, 1)

\* the batch is two anchored edits that pass validation, target disjoint
\* lines and fire no heuristic
DisjointPlainBatch ==
  /\ Len(params.edits) = 2
  /\ Len(anchor_edits) = 2
  /\ PassedValidation
  /\ Targeted(Validated(1)) \cap Targeted(Validated(2)) = {}
  /\ \A i \in 1..2 : NoHeuristicFires(i)

\* C23: for a batch of anchored edits whose targeted lines and ranges are
\* pairwise disjoint (the anchor of an InsertAfter counts as a targeted line)
\* and on which no repair heuristic fires, the result is the original file
\* with every targeted span replaced at once, all line numbers being those of
\* the original file; it depends on the set of the edits only, so it is the
\* same for every permutation of the batch.
C23_DisjointEditsCommute ==
  (pc = "exited" /\ DisjointPlainBatch) =>
    /\ anchor_result.kind = "ok"
    /\ file_lines = SimultaneousFrom(TargetLines, ValidatedSet, 1)
    /\ anchor_result.content
         = JoinWith(SimultaneousFrom(TargetLines, ValidatedSet, 1), <<LF>>)

\* C23's case: the edit sent first targets the lines above the other and
\* changes the number of lines; the run succeeded
C23_Witness ==
  /\ pc = "exited" /\ exit_code = 0
  /\ DisjointPlainBatch
  /\ Validated(1).spec.kind # "InsertAfter"
  /\ Validated(1).spec.line < Validated(2).spec.line
  /\ Len(Validated(1).dst_lines) # Cardinality(Targeted(Validated(1)))
  /\ Len(file_lines) # Len(TargetLines)


(***************************************************************************)
(* The claims about batches of JSON edits                                  *)
(***************************************************************************)
\* the path of the edit i of the batch, as segments
SegmentsOf(i) == parse_path_segments(PathOf(params.edits[i].anchor)).segments

\* the segments s lead to the node at t or to a node below it
AtOrBelow(s, t) == Len(s) >= Len(t) /\ SubSeq(s, 1, Len(t)) = t

\* both edits of a batch of two have been applied to the clone, which has
\* not yet replaced the AST of the caller: ast is the pre-batch AST
BothApplied ==
  /\ cmd = "json-apply"
  /\ pc = "json_apply"
  /\ Len(params.edits) = 2
  /\ next_edit = 3

\* the staged AST the second edit was applied to
Staged == ApplyJsonEdit(ast[1], params.edits[1]).value

\* C24: in a JSON batch every edit modifies the node that its anchor path
\* addressed in the pre-batch AST and whose hash was validated; an earlier
\* edit of the batch never makes a later edit apply to another node.  For the
\* second edit of a batch, the first not being an edit of the same node or of
\* a node below it: the node at its path in the staged AST is the node at
\* its path in the pre-batch AST.
C24_EditHitsValidatedNode ==
  (BothApplied /\ ~AtOrBelow(SegmentsOf(1), SegmentsOf(2))) =>
    /\ query_path_segments(Staged, SegmentsOf(2)).ok
    /\ query_path_segments(Staged, SegmentsOf(2)).value
         = query_path_segments(ast[1], SegmentsOf(2)).value

\* C25: while a JSON batch is applied, set_path succeeds only if its path
\* exists in the staged AST at the moment the edit is applied, so a set_path
\* on a key or an index that an earlier edit of the batch removed fails; a
\* set_path on $ replaces the entire AST.
C25_SetPathNeedsExistingPath ==
  (BothApplied /\ params.edits[2].op = "set_path") =>
    /\ query_path_segments(Staged, SegmentsOf(2)).ok
    /\ SegmentsOf(2) = <<>> => cloned_ast = Some(params.edits[2].value)


(***************************************************************************)
(* The claims about the validation and the heuristics                      *)
(***************************************************************************)
\* every edit of the batch is parsed and some edit keeps a reference to a
\* line outside the file
BatchHasOutOfRange ==
  /\ ParseAll(anchor_edits, 1).kind = "ok"
  /\ \E i \in 1..Len(anchor_edits) : \E ref \in KeptRefs(anchor_edits[i]) :
       OutOfRange(ref[1], TargetLines)

\* C26: if a batch holds an anchor with a stale hash that cannot be
\* relocated and an anchor whose line is out of range, in either order,
\* apply_hashline_edits returns the out-of-range error and not a
\* HashlineMismatchError: the mismatches recorded so far are discarded and
\* the caller exits with 2 and prints no refreshed anchors.
C26_BoundsErrorBeforeMismatch ==
  (pc = "exited" /\ ApplyRun /\ BatchHasStaleRef /\ BatchHasOutOfRange) =>
    /\ anchor_result.kind = "err"
    /\ anchor_result.mismatches = <<>>
    /\ exit_code = 2
    /\ stderr = <<>>
    /\ writes = 0 /\ disk = disk0

\* C26's case: the stale anchor came first and its mismatch was recorded
\* before the out-of-range anchor ended the validation
C26_Witness ==
  /\ pc = "exited" /\ exit_code = 2
  /\ ApplyRun
  /\ BatchHasOutOfRange
  /\ Len(anchor_edits) = 2
  /\ \E ref \in KeptRefs(anchor_edits[1]) :
       StaleRef(ref, TargetLines) /\ ~Locatable(ref, TargetLines)
  /\ mismatches # <<>>
  /\ anchor_result.kind = "err"


\* the line ends with a continuation token
EndsInContinuation(line) ==
  strip_trailing_continuation_tokens(strip_all_whitespace(line)) # strip_all_whitespace(line)

\* the replacement lines of the edit i of the batch as the engine parses them
DstOf(i) == ParseAll(<<params.edits[i]>>, 1).parsed[1].dst_lines

\* the lines the edits of the batch name
NamedLines == {LineOf(params.edits[i].anchor) : i \in 1..Len(params.edits)}

\* the batch is one SetLine or two SetLine on different lines, each with a
\* valid anchor and a replacement of one line
OneLineSetLines ==
  /\ ApplyRun
  /\ Len(params.edits) \in 1..2
  /\ \A i \in 1..Len(params.edits) :
       /\ params.edits[i].op = "set_line"
       /\ ValidAnchor(params.edits[i].anchor, TargetLines)
       /\ Len(DstOf(i)) = 1
  /\ Cardinality(NamedLines) = Len(params.edits)

\* line j of the file after the edits other than edit i: the replacement of
\* the edit that names it, or the line itself
OtherLine(i, j) ==
  IF \E h \in 1..Len(params.edits) : h # i /\ LineOf(params.edits[h].anchor) = j
  THEN DstOf(3 - i)[1]
  ELSE TargetLines[j]

\* the result has one line less and, around the line k of edit i, is the
\* file with the lines k and k+1 replaced by one line
NextAbsorbed(i) ==
  LET k == LineOf(params.edits[i].anchor)
  IN /\ Len(file_lines) = Len(TargetLines) - 1
     /\ k < Len(TargetLines)
     /\ \A j \in 1..(k - 1) : file_lines[j] = OtherLine(i, j)
     /\ \A j \in (k + 1)..Len(file_lines) : file_lines[j] = OtherLine(i, j + 1)

\* the result has one line less and, around the line k of edit i, is the
\* file with the lines k-1 and k replaced by one line
PrevAbsorbed(i) ==
  LET k == LineOf(params.edits[i].anchor)
  IN /\ Len(file_lines) = Len(TargetLines) - 1
     /\ k >= 2
     /\ \A j \in 1..(k - 2) : file_lines[j] = OtherLine(i, j)
     /\ \A j \in k..Len(file_lines) : file_lines[j] = OtherLine(i, j + 1)

SpanStart == LineOf(params.edits[1].anchor)

SpanEnd ==
  IF params.edits[1].op = "replace_lines" /\ params.edits[1].end_anchor # None
  THEN LineOf(params.edits[1].end_anchor[1])
  ELSE SpanStart

\* the batch is one SetLine or ReplaceLines with valid anchors on a span
\* that holds one of the hyphens
ReplacesHyphenSpan ==
  /\ ApplyRun
  /\ Len(params.edits) = 1
  /\ params.edits[1].op \in {"set_line", "replace_lines"}
  /\ ValidAnchor(params.edits[1].anchor, TargetLines)
  /\ params.edits[1].op = "replace_lines" =>
       /\ params.edits[1].end_anchor # None
       /\ ValidAnchor(params.edits[1].end_anchor[1], TargetLines)
  /\ SpanStart <= SpanEnd
  /\ \E j \in SpanStart..SpanEnd : \E h \in 1..Len(TargetLines[j]) :
       TargetLines[j][h] \in Hyphens

\* the line with every hyphen of the specified set replaced by ASCII '-'
AsciiHyphens(line) == [h \in 1..Len(line) |-> IF line[h] \in Hyphens THEN "-" ELSE line[h]]

\* the file with the span replaced by the lines
WithSpan(lines) ==
  SubSeq(TargetLines, 1, SpanStart - 1) \o lines
    \o SubSeq(TargetLines, SpanEnd + 1, Len(TargetLines))

\* C28: for every code point of U+2010..U+2015, U+2212, U+FE63, U+FF0D, a
\* SetLine or Range edit whose replacement is identical to an original span
\* that holds the code point results in the span with each such code point
\* replaced by ASCII '-'; a replacement that differs from the original span
\* is not normalized.
C28_HyphensNormalizedOnNoop ==
  (pc = "exited" /\ ReplacesHyphenSpan) =>
    LET span == SubSeq(TargetLines, SpanStart, SpanEnd)
        dst == split_dst_lines(RawText(params.edits[1]))
    IN /\ anchor_result.kind = "ok"
       /\ file_lines = WithSpan(IF dst = span
                                THEN [j \in 1..Len(span) |-> AsciiHyphens(span[j])]
                                ELSE dst)


\* the batch is one InsertAfter with a valid anchor whose text starts with
\* a line that equals the anchor line ignoring whitespace
InsertEchoesAnchor ==
  /\ InsertsAfterValid
  /\ DstOf(1) # <<>>
  /\ strip_all_whitespace(DstOf(1)[1])
       = strip_all_whitespace(TargetLines[LineOf(params.edits[1].anchor)])

\* C29: for an InsertAfter at line k, whenever the first line of the text
\* equals line k ignoring whitespace, that line is dropped before the
\* insertion, for a text of any number of lines; if nothing remains, the edit
\* is recorded in noop_edits and the content is unchanged.
C29_AnchorEchoDropped ==
  (pc = "exited" /\ InsertEchoesAnchor) =>
    LET k == LineOf(params.edits[1].anchor)
    IN /\ anchor_result.kind = "ok"
       /\ file_lines = SubSeq(TargetLines, 1, k) \o Tail(DstOf(1))
                         \o SubSeq(TargetLines, k + 1, Len(TargetLines))
       /\ Tail(DstOf(1)) = <<>> =>
            /\ Len(anchor_result.noop_edits) = 1
            /\ anchor_result.content = JoinWith(TargetLines, <<LF>>)


\* the batch is one ReplaceLines over lines of the file whose two anchors
\* are both validated or relocated, the start to a line after the end
RangeRelocatedBackwards ==
  /\ OneEdit("replace_lines")
  /\ parse_hashline_edit(params.edits[1]).kind = "ok"
  /\ parse_hashline_edit(params.edits[1]).spec.kind = "Range"
  /\ ~OutOfBounds(params.edits[1], TargetLines)
  /\ \A ref \in KeptRefs(params.edits[1]) : Locatable(ref, TargetLines)
  /\ LET s == parse_hashline_edit(params.edits[1]).spec
     IN LocatedLine(<<s.line, s.hash>>, TargetLines)
          > LocatedLine(<<s.end_line, s.end_hash>>, TargetLines)

\* C30: during the validation of a Range the relocated span length
\* end_line - start_line + 1 is evaluated only with end_line >= start_line: a
\* relocation that puts the start after the end leads to the rejection with a
\* hash mismatch and never to an unsigned underflow, which is a panic in a
\* build with overflow checks.
C30_NoUnderflowOnRelocation ==
  (pc = "exited" /\ RangeRelocatedBackwards) =>
    /\ exit_code # PanicExit
    /\ anchor_result.kind = "mismatch"
    /\ exit_code = 1

=============================================================================
